---- MODULE Spec2Model ----
(***************************************************************************)
(* randomize: read delimited records from one or more streams, keep a      *)
(* uniformly random ordered selection of at most nrecords of them, and     *)
(* write each selected record through the output template.                 *)
(*                                                                         *)
(* The sampler is main() of the current randomize.c (src/unnamed/part_003, *)
(* second half), the record source and the template engine are the rec_*   *)
(* functions of src/unnamed/part_001 with the interface of src/record.h.   *)
(* The build is the Makefile's: assertions are enabled (no -DNDEBUG).      *)
(***************************************************************************)
EXTENDS Integers, Sequences, FiniteSets, TLC

(***************************************************************************)
(* Bounds of the model.  The buffer and budget sizes are the program's     *)
(* constants scaled down so that flushes, slides, buffer doublings and     *)
(* budget exhaustion happen on streams of a few bytes.                     *)
(***************************************************************************)
\* number of file operands (argc after option processing)
NFiles == 2
\* total number of bytes all input streams deliver
MaxBytes == 4
\* largest value given to -n (besides the default, unlimited)
MaxCap == 2
\* cap on the running record index (reached only by zero-length records)
MaxRecNo == 3
\* f[rfd].buf_size = 4096 at rec_open (part_001:158), scaled
BufSizeInit == 4
\* BUFSIZ of <stdio.h>, scaled
BUFSIZ == 1
\* memory_cache_initial = 16 * 1024 (part_003:320), scaled
memory_cache_initial == 4
\* 2 * sizeof(void *) + 2 * sizeof(size_t) of REC_ESTIMATED_MEMORY_USE, scaled
RecOverhead == 1
\* rec_size = 128 at the first malloc of the record array (part_003:449), scaled
RecSizeInit == 1
\* INT_MAX as the limit of buf_size (part_001:345, 369), scaled with
\* BufSizeInit
BufSizeMax == 15

\* nrecords when -n is not given: UINT32_MAX in the source (part_003:390),
\* here the largest integer of the model's 32-bit arithmetic
UINT32_MAX == 2147483647
\* INT_MIN of <limits.h>
INT_MIN == (0 - 2147483647) - 1

\* character codes (ASCII) of the characters the model names
Ord ==
    [c \in {"NUL", "&", ",", "0", "1", "2", "3", "4", "5", "6", "7", "8", "9",
            "A", "B", "F", "a", "b", "f", "n", "r", "t", "v", "x", "g", "\\"} |->
        CASE c = "NUL" -> 0   [] c = "&" -> 38  [] c = "," -> 44
          [] c = "0" -> 48    [] c = "1" -> 49  [] c = "2" -> 50
          [] c = "3" -> 51    [] c = "4" -> 52  [] c = "5" -> 53
          [] c = "6" -> 54    [] c = "7" -> 55  [] c = "8" -> 56
          [] c = "9" -> 57    [] c = "A" -> 65  [] c = "B" -> 66
          [] c = "F" -> 70    [] c = "a" -> 97  [] c = "b" -> 98
          [] c = "f" -> 102   [] c = "g" -> 103 [] c = "n" -> 110
          [] c = "r" -> 114   [] c = "t" -> 116 [] c = "v" -> 118
          [] c = "x" -> 120   [] c = "\\" -> 92]

\* the bytes of the streams; Delim is the byte the delimiter pattern matches
Delim == Ord[","]
Bytes == {Ord["a"], Delim}
\* the patterns given to -e: a one-byte delimiter, one that matches the
\* empty string (the Makefile's '.*?'), and the delimiter with a capture
\* group of its own between two optional ones, (a)?(,)(a)?
Patterns == {"delim", "empty", "groups"}

\* contents of a slot of the record array that was never written
Garbage == [len |-> 0, f_idx |-> 0, loc |-> -1, id |-> -1]

MIN(x, y) == IF x < y THEN x ELSE y
\* record.c defines its own MAX, with the comparison of MIN
MAX(x, y) == IF x < y THEN x ELSE y
abs(x) == IF x < 0 THEN -x ELSE x

RECURSIVE SeqSum(_)
SeqSum(s) == IF s = <<>> THEN 0 ELSE Head(s) + SeqSum(Tail(s))

RECURSIVE SetSum(_, _)
\* the sum of g[x] over the set S
SetSum(g, S) ==
    IF S = {} THEN 0
    ELSE LET x == CHOOSE y \in S : TRUE IN g[x] + SetSum(g, S \ {x})

(***************************************************************************)
(* struct rec and its macros (part_001:76-101).  len is stored negated     *)
(* for an in-memory record; f_idx is stored negated (INT_MIN for 0) for a  *)
(* record produced after end of input; loc is the union of the spill       *)
(* offset and the pointer to the owned copy.  id is a history field: the   *)
(* running index the record was read at.                                   *)
(***************************************************************************)
\* a REC_IS_OFFSET that takes a record of no bytes for an offset
REC_IS_OFFSETOrEmpty(rec) == rec.len >= 0

REC_IS_OFFSET(rec) == rec.len > 0
REC_IS_LAST(rec) == rec.f_idx < 0
REC_LEN(rec) == abs(rec.len)
REC_ESTIMATED_MEMORY_USE(rec) == REC_LEN(rec) + RecOverhead
REC_F_IDX(rec) == IF rec.f_idx = INT_MIN THEN 0 ELSE abs(rec.f_idx)

(***************************************************************************)
(* pcre_exec(re, extra, subject, length, startoffset, options, ...): the   *)
(* bounds <<start, end>> of the first match found in subject from          *)
(* startoffset up to length, or <<>> for PCRE_ERROR_NOMATCH.  Indices are  *)
(* 0-based offsets into subject, as in ovector[0] and ovector[1].          *)
(***************************************************************************)
\* the byte at offset k of the subject is c
ByteIs(subject, length, k, c) ==
    k < length /\ k < Len(subject) /\ subject[k + 1] = c

\* pcre_exec's result for a match of (a)?(,)(a)? from offset j with the
\* comma at offset comma (j, or j + 1 when group 1 took part), last the
\* number of bytes of group 3: the return value rc, one more than the
\* highest-numbered group that matched, and ovector[0 .. 2 * rc - 1], in
\* which a group that took no part is -1, -1
GroupsResult(j, comma, last) ==
    [rc |-> 3 + last,
     ov |-> <<j, comma + 1 + last,
              IF comma = j THEN -1 ELSE j, IF comma = j THEN -1 ELSE j + 1,
              comma, comma + 1>>
               \o [i \in 1 .. 2 * last |-> comma + i]]

\* PCRE_ERROR_NOMATCH
NoGroupsMatch == [rc |-> -1, ov |-> <<>>]

\* the match of (a)?(,)(a)? that starts at offset j of the subject
GroupsAt(subject, length, j) ==
    IF ByteIs(subject, length, j, Ord["a"])
    THEN IF ~ByteIs(subject, length, j + 1, Delim) THEN NoGroupsMatch
         ELSE IF ByteIs(subject, length, j + 2, Ord["a"])
         THEN GroupsResult(j, j + 1, 1)
         ELSE GroupsResult(j, j + 1, 0)
    ELSE IF ~ByteIs(subject, length, j, Delim) THEN NoGroupsMatch
    ELSE IF ByteIs(subject, length, j + 1, Ord["a"])
    THEN GroupsResult(j, j, 1)
    ELSE GroupsResult(j, j, 0)

\* the leftmost of the matches ms
Leftmost(ms) ==
    IF ms = {} THEN NoGroupsMatch
    ELSE CHOOSE m \in ms : \A g \in ms : m.ov[1] <= g.ov[1]

\* the first match of (a)?(,)(a)? from startoffset on
GroupsMatch(subject, length, startoffset) ==
    Leftmost({GroupsAt(subject, length, j) : j \in startoffset .. (length - 1)}
                \ {NoGroupsMatch})

\* the option that says the end of the subject is not the end of a line
PCRE_NOTEOL == 256

\* the match of a,?$|, that starts at offset j of the subject: an "a", with
\* a delimiter after it or without, at the end of the subject where $ can
\* match there; or a delimiter
EolAt(subject, length, j, options) ==
    IF ByteIs(subject, length, j, Delim) THEN <<j, j + 1>>
    ELSE IF options = PCRE_NOTEOL \/ ~ByteIs(subject, length, j, Ord["a"])
    THEN <<>>
    ELSE IF j + 1 = length THEN <<j, j + 1>>
    ELSE IF j + 2 = length /\ ByteIs(subject, length, j + 1, Delim)
    THEN <<j, j + 2>>
    ELSE <<>>

\* the first match of a,?$|, from startoffset on
EolMatch(subject, length, startoffset, options) ==
    LET ms == {EolAt(subject, length, j, options) :
                  j \in startoffset .. (length - 1)} \ {<<>>}
    IN IF ms = {} THEN <<>>
       ELSE CHOOSE m \in ms : \A g \in ms : m[1] <= g[1]

pcre_exec(re, subject, length, startoffset, options) ==
    IF re = "empty" THEN <<startoffset, startoffset>>
    ELSE IF re = "eol" THEN EolMatch(subject, length, startoffset, options)
    ELSE IF re = "groups"
    THEN LET g == GroupsMatch(subject, length, startoffset)
         IN IF g.rc < 0 THEN <<>> ELSE SubSeq(g.ov, 1, 2)
    ELSE LET hits == {j \in startoffset .. (length - 1) :
                         j < Len(subject) /\ subject[j + 1] = Delim}
         IN IF hits = {} THEN <<>>
            ELSE LET j == CHOOSE h \in hits : \A g \in hits : h <= g
                 IN <<j, j + 1>>

(***************************************************************************)
(* State.                                                                  *)
(*   main():      pc, nrecords, re, delim, argi, rfd, rec, rec_size,       *)
(*                rec_no, r, to_free, to_free_valid, memory_cache, out_i   *)
(*   rec_*:       f (the file table), f_last, f_size, eof (rec_next's      *)
(*                local), ovector_size, w_buf_size                         *)
(*   signals:     got_siginfo, stderr (the progress messages written)      *)
(*                argv, argj (the operands, and main's j: how many are     *)
(*                still to be drawn from, with -a; part_003:425-447)       *)
(*   libc:        errno: set by a failing call, left alone by a            *)
(*                successful one, set to 0 by rec_next at end of input     *)
(*                (part_001:334)                                           *)
(*   environment: stream (bytes each input delivered so far), stream_eof   *)
(*                (a read returned 0), spill (contents of each temporary   *)
(*                file), heap (the live malloc()ed record copies),         *)
(*                heap_limit (the number of bytes malloc can hand out for  *)
(*                record copies, all live copies together),                *)
(*                stdout                                                   *)
(*   history:     seen (the records rec_next returned, in order, each with *)
(*                the draw r it was read under), ub (a                     *)
(*                pointer was freed or read that is not live)              *)
(***************************************************************************)
VARIABLES pc, nrecords, re, delim, argi, rfd, rec, rec_size, rec_no, r,
          to_free, to_free_valid, memory_cache, out_i, f, eof,
          stream, stream_eof, spill, heap, stdout, seen, ub,
          f_last, f_size, errno, argv, argj, heap_limit,
          ovector_size, w_buf_size, got_siginfo, stderr

vars == <<pc, nrecords, re, delim, argi, rfd, rec, rec_size, rec_no, r,
          to_free, to_free_valid, memory_cache, out_i, f, eof,
          stream, stream_eof, spill, heap, stdout, seen, ub,
          f_last, f_size, errno, argv, argj, heap_limit,
          ovector_size, w_buf_size, got_siginfo, stderr>>

mainVars == <<nrecords, re, delim, argi, rfd, rec, rec_size, rec_no, r,
              to_free, to_free_valid, memory_cache, out_i>>
envVars == <<stream, stream_eof, spill, heap, stdout>>
\* main's variables of the mode that treats the operands as records
argVars == <<argv, argj>>
\* the sizes of record.c's shared match vector and write buffer; 0: the
\* pointer is NULL (part_001:109-111)
staticVars == <<ovector_size, w_buf_size>>
\* the flag the SIGINFO handler sets (part_003:312) and the messages on the
\* standard error
sigVars == <<got_siginfo, stderr>>

\* handle_siginfo(sig) (part_003:329-337): the value it gives got_siginfo
handle_siginfo == 1

\* a poll that writes the message and leaves the flag set
PollKeepsFlag(flag, err, msg) ==
    [got_siginfo |-> flag,
     stderr |-> IF flag # 0 THEN Append(err, msg) ELSE err]

\* if (got_siginfo) { got_siginfo = 0; fprintf(stderr, ...); }
\* (part_003:549-557, 598-605)
Poll(flag, err, msg) ==
    [got_siginfo |-> 0,
     stderr |-> IF flag # 0 THEN Append(err, msg) ELSE err]

\* the message of part_003:552-554
Reading(n) == [at |-> "Reading", n |-> n]

\* the message of part_003:601-603
Writing(n, total) == [at |-> "Writing", n |-> n, total |-> total]

\* main passes try_again or try_again2 if polls, with the message msg
PollAt(polls, msg) ==
    IF polls
    THEN /\ got_siginfo' = Poll(got_siginfo, stderr, msg).got_siginfo
         /\ stderr' = Poll(got_siginfo, stderr, msg).stderr
    ELSE UNCHANGED sigVars

RFDs == 0 .. (NFiles - 1)

\* an entry of f[] that is not in use: offset = -1
UnusedFile ==
    [offset |-> -1, buf_p |-> <<>>, buf_first_write |-> 0, buf_first_read |-> 0,
     buf_last |-> 0, buf_size |-> 0, fd |-> -1, tmp |-> -1]

\* the record array main allocates first (part_003:449-451), as a sequence
NewArray == <<>> \o [j \in 1 .. RecSizeInit |-> Garbage]

\* the -e and -o operands of the runs explored: a delimiter with the
\* default template, and the pattern and template of the Makefile's
\* zero-width test
CommandLines ==
    {<<"delim", <<Ord["\\"], Ord["n"]>>>>, <<"empty", <<Ord["&"]>>>>}

\* main at the step at, before the loop over the operands, of which those
\* from the one numbered first on were given; caps: the values nrecords can
\* have; limits: the sizes the heap can have; lines: the -e and -o operands
StartedWith(at, caps, first, limits, lines) ==
    /\ argv = <<>>
    /\ heap_limit \in limits
    /\ ovector_size = 0
    /\ w_buf_size = 0
    /\ got_siginfo = 0
    /\ stderr = <<>>
    /\ argj = 0
    /\ pc = at
    /\ nrecords \in caps
    /\ \E c \in lines : re = c[1] /\ delim = c[2]
    /\ argi = first
    /\ rfd = 0
    /\ rec = NewArray
    /\ rec_size = RecSizeInit
    /\ rec_no = 0
    /\ r = 0
    /\ to_free = Garbage
    /\ to_free_valid = 0
    /\ memory_cache = memory_cache_initial
    /\ out_i = 0
    /\ f = [d \in RFDs |-> UnusedFile]
    /\ eof = FALSE
    /\ stream = [d \in RFDs |-> <<>>]
    /\ stream_eof = [d \in RFDs |-> FALSE]
    /\ spill = [d \in RFDs |-> <<>>]
    /\ heap = {}
    /\ stdout = <<>>
    /\ seen = <<>>
    /\ ub = FALSE
    /\ f_last = 0
    /\ f_size = 0
    /\ errno = "0"

\* the runs with the operands of CommandLines
StartedAt(at, caps, first, limits) ==
    StartedWith(at, caps, first, limits, CommandLines)

\* main after option processing, the cap given by -n or left out
Started(first, limits) ==
    StartedAt("open", (1 .. MaxCap) \cup {UINT32_MAX}, first, limits)

\* NFiles operands, and a heap that never runs out
Init == Started(0, {UINT32_MAX})

(***************************************************************************)
(* rec_open (part_001:119-224): the entry of f[] for a newly opened        *)
(* descriptor fd; tmp is fd itself when fstat says the file is regular,    *)
(* and the descriptor of a fresh temporary file otherwise.                 *)
(***************************************************************************)
OpenedFile(fd, regular) ==
    [offset |-> 0, buf_p |-> <<>>, buf_first_write |-> 0, buf_first_read |-> 0,
     buf_last |-> 0, buf_size |-> BufSizeInit, fd |-> fd,
     tmp |-> IF regular THEN fd ELSE fd + 1]

\* a FreeEntry that picks the highest free entry
FreeEntryHighest(ft, last) ==
    LET free == {i \in 0 .. (last - 1) : ft[i].offset = -1}
    IN IF free = {} THEN last
       ELSE CHOOSE i \in free : \A j \in free : j <= i

\* the entry rec_open picks: the first free one, else f_last (part_001:134)
FreeEntry(ft, last) ==
    LET free == {i \in 0 .. (last - 1) : ft[i].offset = -1}
    IN IF free = {} THEN last
       ELSE CHOOSE i \in free : \A j \in free : i <= j

\* new_files_size (part_001:137-142)
NewFilesSize(size) ==
    IF size < 4 THEN 4
    ELSE CHOOSE n \in {2 ^ e : e \in 0 .. 30} :
            n > size /\ \A m \in {2 ^ e : e \in 0 .. 30} : m > size => n <= m

\* capturecount as pcre_fullinfo reports it for the patterns explored
CaptureCount(pat) == IF pat = "groups" THEN 3 ELSE 0

\* ovector_size after rec_open made ovector usable (part_001:175-182)
OvectorSize(size, pat) ==
    IF (CaptureCount(pat) + 1) * 3 > size
    THEN (CaptureCount(pat) + 1) * 3
    ELSE size

\* new_len of part_001:485-487
RECURSIVE NewLen(_, _)
NewLen(n, len) == IF n < len THEN NewLen(2 * n, len) ELSE n

\* w_buf_size after rec_write made room for len bytes (part_001:482-495)
WBufSize(size, len) ==
    IF size < len THEN NewLen(IF size # 0 THEN size ELSE BUFSIZ, len)
    ELSE size

\* record.c's statics, as one value
Table ==
    [f |-> f, f_last |-> f_last, f_size |-> f_size,
     ovector_size |-> ovector_size, w_buf_size |-> w_buf_size]

\* one past the last entry in use among 0 .. d (part_001:249-251)
PastUsed(ft, d) ==
    LET used == {i \in 0 .. d : ft[i].offset # -1}
    IN IF used = {} THEN 0
       ELSE (CHOOSE i \in used : \A j \in used : j <= i) + 1

\* the entry d after rec_close freed its buffer (part_001:244-245)
ClosedEntry(ft, d) == [ft EXCEPT ![d].offset = -1, ![d].buf_p = <<>>]

\* the table shrunk to size entries; at 0 everything is freed
\* (part_001:253-274)
Shrunk(t, d, size) ==
    [f |-> ClosedEntry(t.f, d), f_last |-> size, f_size |-> size,
     ovector_size |-> IF size = 0 THEN 0 ELSE t.ovector_size,
     w_buf_size |-> IF size = 0 THEN 0 ELSE t.w_buf_size]

\* rec_close(d) on the table t (part_001:226-278); realloc_ok: the realloc
\* that shrinks f[] returned a pointer
rec_close(t, d, realloc_ok) ==
    IF /\ d = t.f_last - 1
       /\ PastUsed(ClosedEntry(t.f, d), d) < t.f_size \div 4
       /\ realloc_ok
    THEN Shrunk(t, d, PastUsed(ClosedEntry(t.f, d), d))
    ELSE [t EXCEPT !.f = ClosedEntry(t.f, d)]

\* the table once rec_open has filled in entry slot (part_001:134-182)
Entered(t, slot, fd, pat, regular) ==
    [f |-> [t.f EXCEPT ![slot] = OpenedFile(fd, regular)],
     f_last |-> IF slot = t.f_last THEN t.f_last + 1 ELSE t.f_last,
     f_size |-> IF slot = t.f_last /\ t.f_last = t.f_size
                THEN NewFilesSize(t.f_size) ELSE t.f_size,
     ovector_size |-> OvectorSize(t.ovector_size, pat),
     w_buf_size |-> t.w_buf_size]

\* f[slot].tmp = mkstemp(template) returned -1 (part_001:207)
NoTmp(t, slot) == [t EXCEPT !.f[slot].tmp = -1]

\* rec_open(fd, ..., re, ...) on the table t (part_001:119-224): the table
\* it leaves and the value it returns.  created: mkstemp made the temporary
\* file a source that is not a regular file needs; without it rec_open
\* closes the entry again and returns -1.
rec_open(t, fd, pat, regular, created, realloc_ok) ==
    IF regular \/ created
    THEN [t |-> Entered(t, FreeEntry(t.f, t.f_last), fd, pat, regular),
          rv |-> FreeEntry(t.f, t.f_last)]
    ELSE [t |-> rec_close(NoTmp(Entered(t, FreeEntry(t.f, t.f_last), fd, pat,
                                        FALSE),
                                FreeEntry(t.f, t.f_last)),
                          FreeEntry(t.f, t.f_last), realloc_ok),
          rv |-> -1]

\* main's "Open file" step for operand argi (part_003:498-506)
RecOpen ==
    /\ UNCHANGED <<argVars, heap_limit, sigVars>>
    /\ pc = "open"
    /\ \E regular \in BOOLEAN, created \in BOOLEAN, realloc_ok \in BOOLEAN :
          LET o == rec_open(Table, 3 + 2 * argi, re, regular, created,
                            realloc_ok)
          IN /\ f' = o.t.f
             /\ f_last' = o.t.f_last
             /\ f_size' = o.t.f_size
             /\ ovector_size' = o.t.ovector_size
             /\ w_buf_size' = o.t.w_buf_size
             /\ IF o.rv # -1
                THEN /\ rfd' = o.rv
                     /\ pc' = "draw"
                     /\ UNCHANGED errno
                ELSE \* mkstemp failed: err(1, "Failed to rec_open ...")
                     /\ pc' = "fatal"
                     /\ errno' = "EMFILE"
                     /\ UNCHANGED rfd
    /\ UNCHANGED <<nrecords, re, delim, argi, rec, rec_size, rec_no, r, to_free,
                   to_free_valid, memory_cache, out_i, eof, seen, ub>>
    /\ UNCHANGED envVars

(***************************************************************************)
(* The head of the sampling loop (part_003:523-546).                       *)
(***************************************************************************)
\* a GrowArray that doubles the array one record too late
GrowArrayLate(a, size, no, cap) ==
    IF MIN(no, cap) > size
    THEN a \o [j \in 1 .. size |-> Garbage]
    ELSE a

\* the record array after the realloc of part_003:524-532
GrowArray(a, size, no, cap) ==
    IF MIN(no + 1, cap) > size
    THEN a \o [j \in 1 .. size |-> Garbage]
    ELSE a

\* the values random_uniform(upper) can return
random_uniform(upper) == 0 .. (upper - 1)

\* a SaveSlot that saves slot 0 whatever r is
SaveSlotFirst(a, no, cap, rr) ==
    IF rr < MIN(no, cap) /\ no < cap
    THEN [a EXCEPT ![no + 1] = a[1]]
    ELSE a

\* a SaveSlot that saves nothing
SaveSlotNone(a, no, cap, rr) == a

\* an eviction test that never finds a record to free
EvictsNever(no, cap, rr) == FALSE

\* a SaveSlot that saves rec[r] in the last slot in use
SaveSlotInUse(a, no, cap, rr) ==
    IF rr < MIN(no, cap) /\ no < cap
    THEN [a EXCEPT ![no] = a[rr + 1]]
    ELSE a

\* rec[rec_no] = rec[r] when r holds valid data and the array is not full
SaveSlot(a, no, cap, rr) ==
    IF rr < MIN(no, cap) /\ no < cap
    THEN [a EXCEPT ![no + 1] = a[rr + 1]]
    ELSE a

\* the draw evicts rec[r] for good: r is valid and the array is full
Evicts(no, cap, rr) == rr < MIN(no, cap) /\ no >= cap

Draw ==
    /\ UNCHANGED <<argVars, heap_limit, staticVars>>
    /\ pc = "draw"
    /\ LET grown == GrowArray(rec, rec_size, rec_no, nrecords)
       IN \E rr \in random_uniform(rec_no + 1) :
             /\ r' = rr
             /\ rec_size' = Len(grown)
             /\ rec' = SaveSlot(grown, rec_no, nrecords, rr)
             /\ IF Evicts(rec_no, nrecords, rr)
                THEN IF to_free_valid = 0
                     THEN /\ to_free' = grown[rr + 1]
                          /\ to_free_valid' = 1
                          /\ pc' = "exec"
                     ELSE \* assert(to_free_valid == 0)
                          /\ pc' = "abort"
                          /\ UNCHANGED <<to_free, to_free_valid>>
                ELSE /\ pc' = "exec"
                     /\ UNCHANGED <<to_free, to_free_valid>>
    /\ PollAt(pc' = "exec", Reading(rec_no))
    /\ eof' = FALSE
    /\ UNCHANGED <<nrecords, re, delim, argi, rfd, rec_no, memory_cache, out_i,
                   f, seen, ub>>
    /\ UNCHANGED envVars
    /\ UNCHANGED <<f_last, f_size, errno>>

(***************************************************************************)
(* rec_next (part_001:291-458).                                            *)
(***************************************************************************)
Spooling(file) == file.tmp # file.fd

\* a read that can fail without setting errno
ErrnosWithZero == {"EAGAIN", "EIO", "0"}

\* the errno values a failing read of the input sets
Errnos == {"EAGAIN", "EIO"}
\* the errno values a failing write to the temporary file sets
WriteErrnos == {"EINTR", "EIO"}
\* main retries rec_next and rec_write on these (part_003:559, 608)
Transient(e) == e \in {"EAGAIN", "EINTR"}

\* a choice of options that never lets $ match at the end of the subject
MatchOptionsNotEol(end) == PCRE_NOTEOL

\* the options of both calls of pcre_exec (part_001:313, 518): none when
\* the data ends the source, PCRE_NOTEOL otherwise
MatchOptions(end) == IF end THEN 0 ELSE PCRE_NOTEOL

\* an Ovector whose unterminated final record stops one byte early
OvectorShort(pat, file, isEof) ==
    LET m == pcre_exec(pat, file.buf_p, file.buf_last - file.buf_first_read,
                       file.buf_first_read, MatchOptions(isEof))
    IN IF m # <<>> THEN m
       ELSE IF isEof /\ file.buf_first_read < file.buf_last
            THEN <<file.buf_first_read, file.buf_last - 1>>
            ELSE <<>>

\* ovector[0..1] when the loop of part_001:313-397 is left with a record:
\* the match of the pattern in the window the call passes to pcre_exec, or
\* the unterminated final record; <<>> when there is none
Ovector(pat, file, isEof) ==
    LET m == pcre_exec(pat, file.buf_p, file.buf_last - file.buf_first_read,
                       file.buf_first_read, MatchOptions(isEof))
    IN IF m # <<>> THEN m
       ELSE IF isEof /\ file.buf_first_read < file.buf_last
            THEN <<file.buf_first_read, file.buf_last>>
            ELSE <<>>

\* rec->internal_only.f_idx (part_001:407-416)
RecFIdx(d, isEof) == IF ~isEof THEN d ELSE IF d = 0 THEN INT_MIN ELSE -d

\* the bytes of the live record copies
HeapBytes(h) == SetSum([b \in h |-> Len(b.bytes)], h)

\* whether malloc(rec_len) returns a pointer (part_001:423): it does while
\* the copies fit in heap_limit bytes
MallocOutcomes(h, rec_len) == {HeapBytes(h) + rec_len <= heap_limit}

\* a Retains that does not look at what malloc returned
RetainsUnallocated(file, cache, rc, malloc_ok) ==
    /\ Spooling(file)
    /\ file.buf_first_read = file.buf_first_write
    /\ cache >= REC_ESTIMATED_MEMORY_USE(rc)

\* the condition of part_001:420-423 for keeping the record in memory
Retains(file, cache, rc, malloc_ok) ==
    /\ Spooling(file)
    /\ file.buf_first_read = file.buf_first_write
    /\ cache >= REC_ESTIMATED_MEMORY_USE(rc)
    /\ malloc_ok

\* a SkipsDiscarded that does not look at the cursors
SkipsDiscardedAlways(file) == Spooling(file)

\* the condition of part_001:441-442 for not spooling a discarded record
SkipsDiscarded(file) ==
    Spooling(file) /\ file.buf_first_read = file.buf_first_write

\* a FileAfterRecord that does not advance the offset
FileAfterRecordSameOffset(file, rec_len, end, unspooled) ==
    [file EXCEPT
       !.buf_first_write = IF unspooled THEN @ + rec_len ELSE @,
       !.buf_first_read = end]

\* a FileAfterRecord that moves the write cursor for every record
FileAfterRecordAlwaysSkips(file, rec_len, end, unspooled) ==
    [file EXCEPT
       !.buf_first_write = @ + rec_len,
       !.offset = IF unspooled THEN @ ELSE @ + rec_len,
       !.buf_first_read = end]

\* f[rfd] after a record of rec_len bytes ending at end was returned;
\* unspooled: its bytes are not to be written to the temporary file
FileAfterRecord(file, rec_len, end, unspooled) ==
    [file EXCEPT
       !.buf_first_write = IF unspooled THEN @ + rec_len ELSE @,
       !.offset = IF unspooled THEN @ ELSE @ + rec_len,
       !.buf_first_read = end]

\* a rec_free that gives back the length but not the overhead
FreeCacheLen(cache, rc) ==
    IF ~REC_IS_OFFSET(rc) THEN cache + REC_LEN(rc) ELSE cache

\* a rec_free that gives nothing back to the budget
FreeCacheNothing(cache, rc) == cache

\* rec_free (part_001:776-784)
FreeCache(cache, rc) ==
    IF ~REC_IS_OFFSET(rc) THEN cache + REC_ESTIMATED_MEMORY_USE(rc) ELSE cache
FreeHeap(h, rc) ==
    IF ~REC_IS_OFFSET(rc) THEN {b \in h : b.p # rc.loc} ELSE h
\* free() of a pointer that is not live
FreeUB(h, rc) == ~REC_IS_OFFSET(rc) /\ ~\E b \in h : b.p = rc.loc

\* a test that leaves the last slot of a capped array without a target
HasTargetStrict(rr, cap) == rr + 1 < cap

\* the slot rec_next fills: &rec[r], or NULL (part_003:558)
HasTarget(rr, cap) == rr < cap

\* [a EXCEPT ![rr] = rc] for the 0-based slot rr
SetSlot(a, rr, rc) == [a EXCEPT ![rr + 1] = rc]

\* the record array after one pass of the sampling loop that read the
\* record rc under the draw rr (part_003:523-558)
Sampled(a, no, cap, rr, rc) ==
    LET saved == SaveSlot(GrowArray(a, Len(a), no, cap), no, cap, rr)
    IN IF HasTarget(rr, cap) THEN SetSlot(saved, rr, rc) ELSE saved

\* rec_next returns 0 with a record; main frees the evicted record and
\* counts the new one (part_001:399-454, part_003:581-590)
RecNextRecord ==
    /\ UNCHANGED <<argVars, heap_limit, staticVars, sigVars>>
    /\ pc = "exec"
    /\ rec_no < MaxRecNo
    /\ Ovector(re, f[rfd], eof) # <<>>
    /\ LET file == f[rfd]
           ov == Ovector(re, file, eof)
           rec_len == ov[2] - file.buf_first_read
           bytes == SubSeq(file.buf_p, file.buf_first_read + 1, ov[2])
           rc0 == [len |-> rec_len, f_idx |-> RecFIdx(rfd, eof),
                   loc |-> -1, id |-> rec_no]
       IN \E malloc_ok \in MallocOutcomes(heap, rec_len) :
          LET keep == HasTarget(r, nrecords)
                      /\ Retains(file, memory_cache, rc0, malloc_ok)
              rc == IF keep
                    THEN [rc0 EXCEPT !.len = -rec_len, !.loc = rec_no]
                    ELSE [rc0 EXCEPT !.loc = file.offset]
              unspooled == IF HasTarget(r, nrecords) THEN keep
                           ELSE SkipsDiscarded(file)
              cache1 == IF keep
                        THEN memory_cache - REC_ESTIMATED_MEMORY_USE(rc)
                        ELSE memory_cache
              heap1 == IF keep
                       THEN heap \cup {[p |-> rec_no, bytes |-> bytes]}
                       ELSE heap
              evict == Evicts(rec_no, nrecords, r)
          IN IF HasTarget(r, nrecords) /\ ~keep /\ ~REC_IS_OFFSET(rc)
             THEN \* assert(REC_IS_OFFSET(rec)) of part_001:437
                  /\ pc' = "abort"
                  /\ rec' = SetSlot(rec, r, rc)
                  /\ UNCHANGED <<f, memory_cache, heap, to_free_valid, rec_no,
                                 seen, ub>>
             ELSE IF evict /\ to_free_valid # 1
             THEN \* assert(to_free_valid == 1) of part_003:582
                  /\ pc' = "abort"
                  /\ UNCHANGED <<f, rec, memory_cache, heap, to_free_valid,
                                 rec_no, seen, ub>>
             ELSE /\ f' = [f EXCEPT ![rfd] =
                              FileAfterRecord(file, rec_len, ov[2], unspooled)]
                  /\ rec' = IF HasTarget(r, nrecords)
                            THEN SetSlot(rec, r, rc) ELSE rec
                  /\ memory_cache' = IF evict THEN FreeCache(cache1, to_free)
                                     ELSE cache1
                  /\ heap' = IF evict THEN FreeHeap(heap1, to_free) ELSE heap1
                  /\ ub' = (ub \/ (evict /\ FreeUB(heap1, to_free)))
                  /\ to_free_valid' = IF evict THEN 0 ELSE to_free_valid
                  /\ rec_no' = rec_no + 1
                  /\ seen' = Append(seen, [src |-> rfd, bytes |-> bytes,
                                           last |-> eof, r |-> r])
                  /\ pc' = "draw"
    /\ UNCHANGED <<nrecords, re, delim, argi, rfd, rec_size, r, to_free, out_i,
                   eof, stream, stream_eof, spill, stdout>>
    /\ UNCHANGED <<f_last, f_size, errno>>

\* rec_next returns -1 with errno 0; main undoes the draw and goes to the
\* next operand, or to the output loop (part_001:319-336, part_003:561-573)
RecNextEOF ==
    /\ UNCHANGED <<argVars, heap_limit, staticVars, sigVars>>
    /\ pc = "exec"
    /\ Ovector(re, f[rfd], eof) = <<>>
    /\ eof
    /\ IF f[rfd].buf_first_read # 0 \/ f[rfd].buf_last # 0
       THEN \* the assertions of part_001:331-332
            /\ pc' = "abort"
            /\ UNCHANGED <<to_free_valid, argi, errno>>
       ELSE IF Evicts(rec_no, nrecords, r) /\ to_free_valid # 1
       THEN /\ pc' = "abort"
            /\ errno' = "0"
            /\ UNCHANGED <<to_free_valid, argi>>
       ELSE /\ to_free_valid' = IF Evicts(rec_no, nrecords, r) THEN 0
                                ELSE to_free_valid
            /\ errno' = "0"
            /\ argi' = argi + 1
            /\ pc' = IF argi + 1 < NFiles THEN "open"
                     ELSE IF to_free_valid' = 0 THEN "write" ELSE "abort"
    /\ UNCHANGED <<nrecords, re, delim, rfd, rec, rec_size, rec_no, r, to_free,
                   memory_cache, out_i, f, eof, seen, ub>>
    /\ UNCHANGED envVars
    /\ UNCHANGED <<f_last, f_size>>

\* no match and no end of input yet: get more data (part_001:338-361)
RecNextMore ==
    /\ UNCHANGED <<argVars, heap_limit, staticVars, sigVars>>
    /\ pc = "exec"
    /\ Ovector(re, f[rfd], eof) = <<>>
    /\ ~eof
    /\ LET file == f[rfd]
       IN IF ~(0 <= file.buf_first_write
               /\ file.buf_first_write <= file.buf_first_read
               /\ file.buf_first_read <= file.buf_last
               /\ file.buf_last <= file.buf_size)
             \/ (~Spooling(file) /\ file.buf_first_write # 0)
          THEN pc' = "abort"
          ELSE IF Spooling(file) /\ file.buf_first_write < file.buf_first_read
          THEN pc' = "flush"
          ELSE pc' = "read"
    /\ UNCHANGED <<f, eof, seen, ub>>
    /\ UNCHANGED mainVars
    /\ UNCHANGED envVars
    /\ UNCHANGED <<f_last, f_size, errno>>

\* pcre_exec rejects a startoffset beyond length with an error other than
\* PCRE_ERROR_NOMATCH where the library makes that check; rec_next fails
\* with EINVAL and main exits (part_001:313-317, part_003:574-578)
RecNextBadOffset ==
    /\ UNCHANGED <<argVars, heap_limit, staticVars, sigVars>>
    /\ pc = "exec"
    /\ f[rfd].buf_first_read > f[rfd].buf_last - f[rfd].buf_first_read
    /\ pc' = "fatal"
    /\ errno' = "EINVAL"
    /\ UNCHANGED <<f, eof, seen, ub, f_last, f_size>>
    /\ UNCHANGED mainVars
    /\ UNCHANGED envVars

\* the number of bytes the input streams have delivered
Delivered == SetSum([d \in RFDs |-> Len(stream[d])], RFDs)

\* a main that gives up on every error
AfterErrorFatal(e) == "fatal"

\* a main that calls rec_next again whatever the error
AfterErrorRetry(e) == "exec"

\* rec_next fails with errno e: main retries the call on a transient
\* error and gives up on any other (part_003:558-579)
AfterError(e) == IF Transient(e) THEN "exec" ELSE "fatal"

\* one write of processed data to the temporary file (part_001:346-359)
RecNextFlush ==
    /\ UNCHANGED <<argVars, heap_limit, staticVars>>
    /\ pc = "flush"
    /\ LET file == f[rfd]
           pending == file.buf_first_read - file.buf_first_write
       IN \/ \E n \in 1 .. pending :
                /\ spill' = [spill EXCEPT ![rfd] =
                                @ \o SubSeq(file.buf_p, file.buf_first_write + 1,
                                            file.buf_first_write + n)]
                /\ f' = [f EXCEPT ![rfd].buf_first_write = @ + n]
                /\ pc' = IF n = pending THEN "read" ELSE "flush"
                /\ UNCHANGED <<eof, errno, sigVars>>
          \/ \E e \in WriteErrnos :
                /\ errno' = e
                /\ pc' = AfterError(e)
                /\ PollAt(AfterError(e) = "exec", Reading(rec_no))
                /\ eof' = FALSE
                /\ UNCHANGED <<f, spill>>
    /\ UNCHANGED <<stream, stream_eof, heap, stdout, seen, ub>>
    /\ UNCHANGED mainVars
    /\ UNCHANGED <<f_last, f_size>>

\* a test for room that always finds enough
SlideSufficesAlways(file) == TRUE

\* a test for room that takes the larger of a quarter and a block
SlideSufficesLarger(file) ==
    file.buf_size - (file.buf_last - file.buf_first_read)
        >= (IF file.buf_size \div 4 > BUFSIZ THEN file.buf_size \div 4
            ELSE BUFSIZ)

\* part_001:363: is there room enough to only move the unprocessed data?
SlideSuffices(file) ==
    file.buf_size - (file.buf_last - file.buf_first_read)
        >= MAX(file.buf_size \div 4, BUFSIZ)

\* the buffer is to be enlarged and twice its size is more than INT_MAX
\* (part_001:367-372)
Overflows(file) == ~SlideSuffices(file) /\ file.buf_size > BufSizeMax \div 2

\* a Refilled that moves the data from buf_first_write on
RefilledFromWritten(file) ==
    [file EXCEPT
       !.buf_p = SubSeq(@, file.buf_first_write + 1, file.buf_last),
       !.buf_size = IF SlideSuffices(file) THEN @ ELSE 2 * @,
       !.buf_last = @ - file.buf_first_write,
       !.buf_first_write = 0,
       !.buf_first_read = 0]

\* a Refilled that leaves the data where it is
RefilledInPlace(file) ==
    [file EXCEPT !.buf_size = IF SlideSuffices(file) THEN @ ELSE 2 * @]

\* f[rfd] after the unprocessed data was moved to the front of the buffer,
\* in place or into a buffer of twice the size (part_001:363-386)
Refilled(file) ==
    [file EXCEPT
       !.buf_p = SubSeq(@, file.buf_first_read + 1, file.buf_last),
       !.buf_size = IF SlideSuffices(file) THEN @ ELSE 2 * @,
       !.buf_last = @ - file.buf_first_read,
       !.buf_first_write = 0,
       !.buf_first_read = 0]

\* a test that never sees the end of the input
EndOfInputNever(nbytes) == FALSE

\* read returned nbytes >= 0: was that the end of the input?
\* (part_001:394-395)
EndOfInput(nbytes) == nbytes = 0

\* make room, then one read of the input (part_001:363-396)
RecNextRead ==
    /\ UNCHANGED <<argVars, heap_limit, staticVars>>
    /\ pc = "read"
    /\ LET file == Refilled(f[rfd])
           room == file.buf_size - file.buf_last
       IN IF Overflows(f[rfd])
          THEN \* errno = ENOMEM; goto err (part_001:369-372)
               /\ pc' = "fatal"
               /\ errno' = "ENOMEM"
               /\ UNCHANGED <<f, eof, stream, stream_eof, sigVars>>
          ELSE IF room <= 0
          THEN \* assert(f[rfd].buf_size > f[rfd].buf_last)
               /\ f' = [f EXCEPT ![rfd] = file]
               /\ pc' = "abort"
               /\ UNCHANGED <<eof, stream, stream_eof, errno, sigVars>>
          ELSE \/ \* malloc of the larger buffer failed
                  /\ ~SlideSuffices(f[rfd])
                  /\ pc' = "fatal"
                  /\ errno' = "ENOMEM"
                  /\ UNCHANGED <<f, eof, stream, stream_eof, sigVars>>
               \/ \* read fails
                  \E e \in Errnos :
                     /\ errno' = e
                     /\ f' = [f EXCEPT ![rfd] = file]
                     /\ pc' = AfterError(e)
                     /\ PollAt(AfterError(e) = "exec", Reading(rec_no))
                     /\ eof' = FALSE
                     /\ UNCHANGED <<stream, stream_eof>>
               \/ \* read returns 0: end of input
                  /\ f' = [f EXCEPT ![rfd] = file]
                  /\ stream_eof' = [stream_eof EXCEPT ![rfd] = TRUE]
                  /\ eof' = (eof \/ EndOfInput(0))
                  /\ pc' = "exec"
                  /\ UNCHANGED <<stream, errno, sigVars>>
               \/ \* read returns n bytes
                  /\ ~stream_eof[rfd]
                  /\ \E n \in 1 .. MIN(room, MaxBytes - Delivered) :
                     \E data \in [1 .. n -> Bytes] :
                        /\ f' = [f EXCEPT ![rfd] =
                                    [file EXCEPT !.buf_p = @ \o data,
                                                 !.buf_last = @ + n]]
                        /\ stream' = [stream EXCEPT ![rfd] = @ \o data]
                        /\ pc' = "exec"
                        /\ UNCHANGED <<eof, stream_eof, errno, sigVars>>
    /\ UNCHANGED <<spill, heap, stdout, seen, ub>>
    /\ UNCHANGED mainVars
    /\ UNCHANGED <<f_last, f_size>>

(***************************************************************************)
(* rec_write_raw (part_001:551-774): the output template as a finite       *)
(* state machine over delim[0..strlen(delim)].  A state of the loop is     *)
(* [i, state, value, out, err]: out is what was written to the file, err   *)
(* the kind of error the function returned with ("" while it runs).        *)
(***************************************************************************)
\* an isdigit that knows the digits 0 to 7 only
isdigitTo7(c) == Ord["0"] <= c /\ c <= Ord["7"]

isdigit(c) == Ord["0"] <= c /\ c <= Ord["9"]
isupper(c) == Ord["A"] <= c /\ c <= Ord["A"] + 25
isxdigit(c) ==
    \/ isdigit(c)
    \/ (Ord["a"] <= c /\ c <= Ord["f"])
    \/ (Ord["A"] <= c /\ c <= Ord["F"])
\* an isoctal that takes 8 and 9 for octal digits
isoctalAny(c) == isdigit(c)

isoctal(c) == isdigit(c) /\ c # Ord["8"] /\ c # Ord["9"]

\* delim[i], the terminating NUL included
DelimAt(t, i) == IF i < Len(t) THEN t[i + 1] ELSE Ord["NUL"]

\* the null pointer rec_write_str passes for p (part_001:548)
NULL == <<-1>>

\* putc(value, file): the value converted to unsigned char
putc(st, value) == [st EXCEPT !.out = Append(@, value % 256)]

\* an output_match that writes nothing for a group that is not valid
OutputMatchLenient(st, p, ov, ovector_valid) == [st EXCEPT !.state = "NORMAL"]

\* the code at the label output_match (part_001:588-618).  For a group below
\* ovector_valid that took no part in the match both offsets are -1: fwrite
\* is called with &p[-1] and a length of 0 and writes nothing.
OutputMatch(st, p, ov, ovector_valid) ==
    IF st.value >= ovector_valid
    THEN [st EXCEPT !.err = IF ovector_valid # 0 THEN "invalid backreference"
                            ELSE IF p # NULL THEN "not terminated"
                            ELSE "passed -a"]
    ELSE [st EXCEPT
            !.out = @ \o SubSeq(p, ov[2 * st.value + 1] + 1,
                                ov[2 * st.value + 2]),
            !.state = "NORMAL"]

\* an EscapeOf that lets every character but x and the digits stand for
\* itself
EscapeOfLoose(c) == IF isdigit(c) \/ c = Ord["x"] THEN -1 ELSE c

\* the character a one-letter escape stands for, 0 - 1 if there is none
EscapeOf(c) ==
    CASE c = Ord["&"] -> Ord["&"]
      [] c = Ord["\\"] -> Ord["\\"]
      [] c = Ord["a"] -> 7
      [] c = Ord["b"] -> 8
      [] c = Ord["f"] -> 12
      [] c = Ord["n"] -> 10
      [] c = Ord["r"] -> 13
      [] c = Ord["t"] -> 9
      [] c = Ord["v"] -> 11
      [] OTHER -> -1

\* the value of a hexadecimal digit as part_001:706-707 computes it
HexDigit(c) ==
    c - (IF isdigit(c) THEN Ord["0"]
         ELSE IF isupper(c) THEN Ord["A"] ELSE Ord["a"])

\* one pass through the body of the for loop, without its i++
RawBody(t, p, ov, ovector_valid, st) ==
    LET c == DelimAt(t, st.i)
        back == [st EXCEPT !.i = @ - 1]
    IN CASE st.state = "NORMAL" ->
              LET s0 == [st EXCEPT !.value = 0]
              IN IF c = Ord["\\"] THEN [s0 EXCEPT !.state = "SEEN_BACKSLASH"]
                 ELSE IF c = Ord["&"] THEN OutputMatch(s0, p, ov, ovector_valid)
                 ELSE IF c = Ord["NUL"] THEN s0
                 ELSE putc(s0, c)
         [] st.state = "SEEN_BACKSLASH" ->
              LET s0 == [st EXCEPT !.value = 0]
              IN IF EscapeOf(c) >= 0
                 THEN [putc(s0, EscapeOf(c)) EXCEPT !.state = "NORMAL"]
                 ELSE IF c = Ord["x"] THEN [s0 EXCEPT !.state = "SEEN_HEX0"]
                 ELSE IF isoctal(c)
                 THEN [s0 EXCEPT !.value = c - Ord["0"], !.state = "SEEN_OCTAL1"]
                 ELSE IF isdigit(c)
                 THEN OutputMatch([s0 EXCEPT !.value = c - Ord["0"]],
                                  p, ov, ovector_valid)
                 ELSE [s0 EXCEPT !.err = "invalid escape"]
         [] st.state \in {"SEEN_HEX0", "SEEN_HEX1"} ->
              IF ~isxdigit(c) /\ st.state = "SEEN_HEX0"
              THEN [st EXCEPT !.err = "expected a hex digit"]
              ELSE LET s1 == IF isxdigit(c)
                             THEN [st EXCEPT !.value = 16 * @ + HexDigit(c)]
                             ELSE back
                   IN IF st.state = "SEEN_HEX0"
                      THEN [s1 EXCEPT !.state = "SEEN_HEX1"]
                      ELSE [putc(s1, s1.value) EXCEPT !.value = 0,
                                                      !.state = "NORMAL"]
         [] OTHER -> \* SEEN_OCTAL1, SEEN_OCTAL2
              IF ~isoctal(c) /\ st.state = "SEEN_OCTAL1" /\ st.value # 0
              THEN OutputMatch(back, p, ov, ovector_valid)
              ELSE LET s1 == IF isoctal(c)
                             THEN [st EXCEPT !.value = 8 * @ + (c - Ord["0"])]
                             ELSE back
                   IN IF st.state = "SEEN_OCTAL1"
                      THEN [s1 EXCEPT !.state = "SEEN_OCTAL2"]
                      ELSE [putc(s1, s1.value) EXCEPT !.value = 0,
                                                      !.state = "NORMAL"]

\* one iteration of the for loop
RawStep(t, p, ov, ovector_valid, st) ==
    LET s1 == RawBody(t, p, ov, ovector_valid, st)
    IN IF s1.err # "" THEN s1 ELSE [s1 EXCEPT !.i = @ + 1]

RawInit == [i |-> 0, state |-> "NORMAL", value |-> 0, out |-> <<>>, err |-> ""]
RawRunning(t, st) == st.err = "" /\ st.i <= Len(t)

RECURSIVE RawRun(_, _, _, _, _)
RawRun(t, p, ov, ovector_valid, st) ==
    IF RawRunning(t, st)
    THEN RawRun(t, p, ov, ovector_valid, RawStep(t, p, ov, ovector_valid, st))
    ELSE st

\* rec_write_raw(delim, p, ovector_valid, file) with the shared ovector
rec_write_raw(t, p, ov, ovector_valid) == RawRun(t, p, ov, ovector_valid, RawInit)

(***************************************************************************)
(* rec_write (part_001:460-543) and the output loop of main                *)
(* (part_003:595-615).                                                     *)
(***************************************************************************)
\* the errno values a failing pread of the temporary file sets
PreadErrnos == {"EINTR", "EIO"}

\* the contents of the file f[d].tmp names
TmpBytes(d) == IF Spooling(f[d]) THEN spill[d] ELSE stream[d]

\* the owned copies a pointer names
Owned(h, rc) == {b \in h : b.p = rc.loc}

\* pread can deliver the whole record
Readable(rc) == rc.loc + REC_LEN(rc) <= Len(TmpBytes(REC_F_IDX(rc)))

\* the REC_LEN(rec) bytes at p
RecBytes(h, rc) ==
    IF REC_IS_OFFSET(rc)
    THEN SubSeq(TmpBytes(REC_F_IDX(rc)), rc.loc + 1, rc.loc + REC_LEN(rc))
    ELSE (CHOOSE b \in Owned(h, rc) : TRUE).bytes

\* ovector and ovector_valid for the match g of a pattern with groups
Found(g) == [ov |-> g.ov, valid |-> g.rc, found |-> TRUE]

\* ovector and ovector_valid after the second pcre_exec (part_001:518-529)
WriteMatch(pat, p, len, options) ==
    LET m == pcre_exec(pat, p, len, 0, options)
    IN IF m = <<>> THEN [ov |-> <<len, len>>, valid |-> 0, found |-> FALSE]
       ELSE IF pat = "groups" THEN Found(GroupsMatch(p, len, 0))
       ELSE [ov |-> m, valid |-> 1, found |-> TRUE]

\* the assertions of part_001:521, 527
WriteAsserts(rc, wm) ==
    IF wm.found THEN wm.ov[2] = REC_LEN(rc) ELSE REC_IS_LAST(rc)

\* a rec_write that leaves out what precedes the match
rec_writeFromMatch(pat, t, p, len, options) ==
    rec_write_raw(t, p, WriteMatch(pat, p, len, options).ov,
                  WriteMatch(pat, p, len, options).valid)

\* what rec_write puts on the file and the error it returns
rec_write(pat, t, p, len, options) ==
    LET wm == WriteMatch(pat, p, len, options)
        raw == rec_write_raw(t, p, wm.ov, wm.valid)
    IN [out |-> SubSeq(p, 1, wm.ov[1]) \o raw.out, err |-> raw.err]

\* one pass of the output loop (part_003:596-615).  The template is the
\* one main held when it opened the source (part_003:505); a run keeps one
\* template for all its sources.
WriteRecord ==
    /\ UNCHANGED <<argVars, heap_limit, ovector_size>>
    /\ pc = "write"
    /\ out_i < MIN(rec_no, nrecords)
    /\ PollAt(TRUE, Writing(out_i + 1, MIN(rec_no, nrecords)))
    /\ w_buf_size' = IF REC_IS_OFFSET(rec[out_i + 1])
                     THEN WBufSize(w_buf_size, REC_LEN(rec[out_i + 1]))
                     ELSE w_buf_size
    /\ LET rc == rec[out_i + 1]
       IN IF ~REC_IS_OFFSET(rc) /\ Owned(heap, rc) = {}
          THEN \* p does not point to a live copy
               /\ ub' = TRUE
               /\ pc' = "abort"
               /\ UNCHANGED <<memory_cache, heap, stdout, out_i, errno>>
          ELSE IF REC_IS_OFFSET(rc) /\ ~Readable(rc)
          THEN \* pread keeps returning 0
               /\ pc' = "hang"
               /\ UNCHANGED <<memory_cache, heap, stdout, out_i, errno, ub>>
          ELSE \/ \* pread fails
                  /\ REC_IS_OFFSET(rc)
                  /\ \E e \in PreadErrnos :
                        /\ errno' = e
                        /\ pc' = IF Transient(e) THEN "write" ELSE "fatal"
                  /\ UNCHANGED <<memory_cache, heap, stdout, out_i, ub>>
               \/ LET p == RecBytes(heap, rc)
                      options == MatchOptions(REC_IS_LAST(rc))
                      w == rec_write(re, delim, p, REC_LEN(rc), options)
                  IN IF ~WriteAsserts(rc, WriteMatch(re, p, REC_LEN(rc), options))
                     THEN /\ pc' = "abort"
                          /\ UNCHANGED <<memory_cache, heap, stdout, out_i,
                                         errno, ub>>
                     ELSE /\ stdout' = Append(stdout, [id |-> rc.id,
                                                       bytes |-> w.out,
                                                       ok |-> w.err = ""])
                          /\ IF w.err # ""
                             THEN \* goto try_again2 for ever, or errx
                                  /\ pc' = IF Transient(errno) THEN "hang"
                                           ELSE "fatal"
                                  /\ UNCHANGED <<memory_cache, heap, out_i, ub>>
                             ELSE \* rec_free(&rec[i])
                                  /\ memory_cache' = FreeCache(memory_cache, rc)
                                  /\ heap' = FreeHeap(heap, rc)
                                  /\ ub' = (ub \/ FreeUB(heap, rc))
                                  /\ out_i' = out_i + 1
                                  /\ pc' = "write"
                          /\ UNCHANGED errno
    /\ UNCHANGED <<nrecords, re, delim, argi, rfd, rec, rec_size, rec_no, r,
                   to_free, to_free_valid, f, eof, stream, stream_eof, spill,
                   seen, f_last, f_size>>

(***************************************************************************)
(* The end of main (part_003:617-634): rec_close on every descriptor, the  *)
(* assertion on the budget, rec_assert_released (part_001:280-289: f_size  *)
(* and f_last are 0), exit(0).  close() is taken to succeed.               *)
(***************************************************************************)
\* rec_close(i) for i = first .. last, in that order
RECURSIVE CloseAll(_, _, _, _)
CloseAll(t, first, last, realloc_ok) ==
    IF first > last THEN t
    ELSE CloseAll(rec_close(t, first, realloc_ok), first + 1, last, realloc_ok)

Finish ==
    /\ UNCHANGED <<argVars, heap_limit, sigVars>>
    /\ pc = "write"
    /\ out_i >= MIN(rec_no, nrecords)
    /\ \E realloc_ok \in BOOLEAN :
          LET t == CloseAll(Table, 0, rfd, realloc_ok)
          IN /\ f' = t.f
             /\ f_last' = t.f_last
             /\ f_size' = t.f_size
             /\ ovector_size' = t.ovector_size
             /\ w_buf_size' = t.w_buf_size
             /\ pc' = IF /\ memory_cache = memory_cache_initial
                         /\ t.f_size = 0
                         /\ t.f_last = 0
                         /\ t.ovector_size = 0
                         /\ t.w_buf_size = 0
                      THEN "done" ELSE "abort"
    /\ UNCHANGED <<eof, seen, ub, errno>>
    /\ UNCHANGED mainVars
    /\ UNCHANGED envVars

Next ==
    \/ RecOpen
    \/ Draw
    \/ RecNextRecord
    \/ RecNextEOF
    \/ RecNextMore
    \/ RecNextBadOffset
    \/ RecNextFlush
    \/ RecNextRead
    \/ WriteRecord
    \/ Finish

Spec == Init /\ [][Next]_vars

TypeOK ==
    /\ pc \in {"options", "open", "draw", "exec", "flush", "read", "write",
               "args", "done", "fatal", "abort", "hang"}
    /\ rec_no \in 0 .. MaxRecNo
    /\ out_i \in 0 .. MaxRecNo
    /\ memory_cache \in Int
(***************************************************************************)
(* Properties of the sampler.                                              *)
(***************************************************************************)
\* the logical size of the reservoir
Logical == MIN(rec_no, nrecords)

\* the output loop has written every slot
OutputComplete == pc = "done" \/ (pc = "write" /\ out_i >= Logical)

\* the run was not ended by errx, a failed assertion or an endless retry
Running == pc \notin {"fatal", "abort", "hang"}

\* what one record looks like on output, stated without the template
\* engine: the record itself for -o '&', the record without its delimiter
\* and a newline for -o '\n'
Expected(b) ==
    IF delim = <<Ord["&"]>> THEN b
    ELSE (IF Len(b) > 0 /\ b[Len(b)] = Delim THEN SubSeq(b, 1, Len(b) - 1)
          ELSE b) \o <<10>>

\* C1: with no cap, once the output loop is through, every record rec_next
\* returned has been written exactly once and nothing else has: the written
\* records are a permutation of the records read, whatever the draws and
\* however the records are spread over the sources.
C1_UncappedPermutation ==
    (nrecords = UINT32_MAX /\ OutputComplete) =>
       /\ Len(stdout) = Len(seen)
       /\ \A i \in 1 .. Len(seen) :
             Cardinality({j \in 1 .. Len(stdout) : stdout[j].id = i - 1}) = 1
       /\ \A j \in 1 .. Len(stdout) :
             /\ stdout[j].ok
             /\ stdout[j].id \in 0 .. (Len(seen) - 1)
             /\ stdout[j].bytes = Expected(seen[stdout[j].id + 1].bytes)

\* an uncapped run over two sources has written its three records in an
\* order other than the order they were read in
C1_Witness ==
    /\ nrecords = UINT32_MAX
    /\ pc = "done"
    /\ Len(seen) = 3
    /\ \E i, j \in 1 .. Len(seen) : seen[i].src # seen[j].src
    /\ stdout[1].id # 0
    /\ \E j \in 1 .. Len(stdout) : Len(stdout[j].bytes) > 1

\* C2: with cap k (nrecords), the running count is the number of records
\* read, slots 0 .. min(rec_no, k) - 1 hold pairwise distinct records read
\* so far, and a finished run has written exactly min(n, k) records.
C2_ReservoirSize ==
    /\ rec_no = Len(seen)
    /\ pc # "abort" =>
          \A i \in 1 .. Logical :
             /\ rec[i].id \in 0 .. (rec_no - 1)
             /\ \A j \in 1 .. Logical : j # i => rec[j].id # rec[i].id
    /\ OutputComplete =>
          /\ Len(stdout) = MIN(Len(seen), nrecords)
          /\ \A i, j \in 1 .. Len(stdout) :
                i # j => stdout[i].id # stdout[j].id

\* a run with cap 2 has read three records, evicted one and written two
C2_Witness ==
    /\ nrecords = 2
    /\ pc = "done"
    /\ Len(seen) = 3
    /\ Len(stdout) = 2
    /\ \E j \in 1 .. 2 : stdout[j].id = 2

\* the estimated footprint of the live copies
Footprint(h) ==
    LET ps == {b.p : b \in h}
    IN SetSum([q \in ps |->
                  Len((CHOOSE b \in h : b.p = q).bytes) + RecOverhead], ps)

\* C5: the budget is never negative and is the initial budget less the
\* sum of (length + overhead) over the records that are held in memory
\* and not yet released.
C5_BudgetAccounting ==
    /\ memory_cache >= 0
    /\ memory_cache = memory_cache_initial - Footprint(heap)

\* a record is held in memory and another that was held in memory has
\* been written and released
C5_Witness ==
    /\ pc = "write"
    /\ \E b \in heap : Len(b.bytes) > 0
    /\ memory_cache < memory_cache_initial
    /\ \E j \in 1 .. out_i : ~REC_IS_OFFSET(rec[j]) /\ REC_LEN(rec[j]) > 0

\* the slots the output loop has yet to write
Live == (out_i + 1) .. Logical

\* C6: in a run without a fatal error no copy is freed twice or used after
\* its release, every live copy is owned by exactly one slot still to be
\* written (none is leaked), and when the output loop is through every copy
\* has been released and the budget is back at its initial value, so the
\* assertion memory_cache == memory_cache_initial holds.
C6_ReleasedOnce ==
    /\ ~ub
    /\ Running =>
          \A b \in heap :
             Cardinality({i \in Live : ~REC_IS_OFFSET(rec[i])
                                       /\ rec[i].loc = b.p}) = 1
    /\ OutputComplete =>
          /\ heap = {}
          /\ memory_cache = memory_cache_initial

\* a capped run that evicted a record held in memory and wrote one held
\* in memory has finished
C6_Witness ==
    /\ pc = "done"
    /\ nrecords = 1
    /\ Len(seen) = 3
    /\ heap = {}
    /\ memory_cache = memory_cache_initial
    /\ \E j \in 1 .. Len(stdout) : stdout[j].id = 2

\* the records rec_next returned for source d, in order
SeenOf(d) == SelectSeq(seen, LAMBDA x : x.src = d)
SeenBytes(d) == [i \in 1 .. Len(SeenOf(d)) |-> SeenOf(d)[i].bytes]

RECURSIVE Concat(_)
Concat(ss) == IF ss = <<>> THEN <<>> ELSE Head(ss) \o Concat(Tail(ss))

\* the records of a byte string, stated without buffers: cut after every
\* delimiter, the rest after the last delimiter being a record of its own
RECURSIVE RefSplit(_)
RefSplit(b) ==
    LET hits == {j \in 1 .. Len(b) : b[j] = Delim}
    IN IF b = <<>> THEN <<>>
       ELSE IF hits = {} THEN <<b>>
       ELSE LET j == CHOOSE h \in hits : \A g \in hits : h <= g
            IN <<SubSeq(b, 1, j)>> \o RefSplit(SubSeq(b, j + 1, Len(b)))

IsPrefix(s, t) == Len(s) <= Len(t) /\ SubSeq(t, 1, Len(s)) = s

\* source d has reported end of input
Exhausted(d) == argi > d

\* C4: the records of a source are those of its byte content alone,
\* whether it is a regular file or a stream spooled to a temporary file and
\* whatever was flushed, slid or doubled on the way; and at render time a
\* record read back, from its copy in memory or from the file, has the
\* length and the bytes rec_next returned it with.
C4_SpillEquivalent ==
    re = "delim" =>
       /\ \A d \in RFDs :
             /\ IsPrefix(SeenBytes(d), RefSplit(stream[d]))
             /\ Exhausted(d) /\ Running => SeenBytes(d) = RefSplit(stream[d])
       /\ pc = "write" =>
             \A i \in Live :
                /\ rec[i].id \in 0 .. (Len(seen) - 1)
                /\ REC_LEN(rec[i]) = Len(seen[rec[i].id + 1].bytes)
                /\ REC_F_IDX(rec[i]) = seen[rec[i].id + 1].src
                /\ IF REC_IS_OFFSET(rec[i]) THEN Readable(rec[i])
                   ELSE Owned(heap, rec[i]) # {}
                /\ RecBytes(heap, rec[i]) = seen[rec[i].id + 1].bytes

\* a spooled stream filled the buffer without a delimiter, the buffer was
\* doubled, the data went to the temporary file, and its record is about
\* to be read back from there, next to a record of the other source
C4_Witness ==
    /\ pc = "write"
    /\ out_i = 0
    /\ Spooling(f[1])
    /\ f[1].buf_size > BufSizeInit
    /\ spill[1] = stream[1]
    /\ Len(spill[1]) >= BufSizeInit
    /\ \E i \in Live : REC_IS_OFFSET(rec[i]) /\ REC_F_IDX(rec[i]) = 1

\* an unterminated record
Unterminated(b) == Len(b) = 0 \/ b[Len(b)] # Delim

C9_ZeroLengthRejected ==
    /\ \A i \in 1 .. Len(seen) : Len(seen[i].bytes) > 0
    /\ \A i \in 1 .. Len(rec) : rec[i].id >= 0 => REC_LEN(rec[i]) > 0

\* the sampling loop has stored and counted two records of length zero
\* and goes on
C9_Looping ==
    /\ re = "empty"
    /\ pc = "draw"
    /\ rec_no = 2
    /\ \A i \in 1 .. Len(seen) : Len(seen[i].bytes) = 0
\* the draws the records were read under
Draws == [i \in 1 .. Len(seen) |-> seen[i].r]

\* the running indices of the records in the first m slots
Ids(a, m) == [j \in 1 .. m |-> a[j].id]

\* a record of which only the running index matters
Known(i) == [len |-> 0, f_idx |-> 0, loc |-> -1, id |-> i]

\* the record array of a run that reads n records under the draws ds and
\* meets no failure; a record is known by its running index
RECURSIVE ArrAfter(_, _, _)
ArrAfter(ds, cap, n) ==
    IF n = 0 THEN NewArray
    ELSE Sampled(ArrAfter(ds, cap, n - 1), n - 1, cap, ds[n], Known(n - 1))

\* a call of rec_next has failed with a transient error in this step
FailedAttempt ==
    /\ pc \in {"flush", "read"}
    /\ pc' = "exec"
    /\ Transient(errno')
    /\ ~eof'
    /\ stream' = stream
    /\ spill' = spill

\* the data of f[rfd] that rec_next has still to return or to write out
Unprocessed(file) == SubSeq(file.buf_p, file.buf_first_read + 1, file.buf_last)
Unflushed(file) ==
    IF Spooling(file)
    THEN SubSeq(file.buf_p, file.buf_first_write + 1, file.buf_first_read)
    ELSE <<>>

\* C10: a read or write that fails with EINTR or EAGAIN while a record is
\* fetched never ends the run; the failed call leaves the reservoir, the
\* saved slot, the record to free, the count, the budget and the data
\* still to be processed as they were, and main calls rec_next again for
\* the same slot; after any number of such failures the reservoir is the
\* one a run without failures builds from the same draws and records.
C10_TransientRetried ==
    /\ [](pc = "fatal" => ~Transient(errno))
    /\ [][FailedAttempt =>
             /\ UNCHANGED <<rec, rec_no, r, to_free, to_free_valid, seen,
                            memory_cache, heap, rfd, argi, stdout>>
             /\ Unprocessed(f'[rfd]) = Unprocessed(f[rfd])
             /\ Unflushed(f'[rfd]) = Unflushed(f[rfd])
             /\ f'[rfd].offset = f[rfd].offset]_vars
    /\ [](pc \in {"draw", "write"} =>
             Ids(rec, Logical) = Ids(ArrAfter(Draws, nrecords, rec_no), Logical))

\* a write to the temporary file was interrupted while the third record
\* of a run with cap 1 was fetched, and the record has been read
C10_Witness ==
    /\ errno = "EINTR"
    /\ pc = "draw"
    /\ nrecords = 1
    /\ rec_no = 3
    /\ rec[1].id = 2

(***************************************************************************)
(* The sampling loop on its own: records are known by their running index  *)
(* and every call of rec_next returns one.                                 *)
(***************************************************************************)
MaxDraws == 4
DistCaps == (1 .. MaxDraws) \cup {UINT32_MAX}

InitDist ==
    /\ argv = <<>>
    /\ heap_limit = UINT32_MAX
    /\ ovector_size = 0
    /\ w_buf_size = 0
    /\ got_siginfo = 0
    /\ stderr = <<>>
    /\ argj = 0
    /\ pc = "sample"
    /\ nrecords \in DistCaps
    /\ re = "delim"
    /\ delim = <<Ord["\\"], Ord["n"]>>
    /\ argi = 0
    /\ rfd = 0
    /\ rec = NewArray
    /\ rec_size = RecSizeInit
    /\ rec_no = 0
    /\ r = 0
    /\ to_free = Garbage
    /\ to_free_valid = 0
    /\ memory_cache = memory_cache_initial
    /\ out_i = 0
    /\ f = [d \in RFDs |-> UnusedFile]
    /\ eof = FALSE
    /\ stream = [d \in RFDs |-> <<>>]
    /\ stream_eof = [d \in RFDs |-> FALSE]
    /\ spill = [d \in RFDs |-> <<>>]
    /\ heap = {}
    /\ stdout = <<>>
    /\ seen = <<>>
    /\ ub = FALSE
    /\ f_last = 0
    /\ f_size = 0
    /\ errno = "0"

\* one pass of the loop of part_003:523-590 that reads a record
SampleOne ==
    /\ UNCHANGED <<argVars, heap_limit, staticVars, sigVars>>
    /\ pc = "sample"
    /\ rec_no < MaxDraws
    /\ \E rr \in random_uniform(rec_no + 1) :
          /\ r' = rr
          /\ rec' = Sampled(rec, rec_no, nrecords, rr, Known(rec_no))
          /\ rec_size' = Len(rec')
          /\ seen' = Append(seen, [src |-> 0, bytes |-> <<>>, last |-> FALSE,
                                   r |-> rr])
    /\ rec_no' = rec_no + 1
    /\ UNCHANGED <<pc, nrecords, re, delim, argi, rfd, to_free, to_free_valid,
                   memory_cache, out_i, f, eof, ub, f_last, f_size, errno>>
    /\ UNCHANGED envVars

NextDist == SampleOne

SpecDist == InitDist /\ [][NextDist]_vars

\* the sequences of draws for n records: the draw for record i is in 0 .. i
DrawSeqs(n) == {ds \in [1 .. n -> 0 .. (n - 1)] : \A j \in 1 .. n : ds[j] < j}

\* the ordered arrangements of m distinct records out of n
Arrangements(n, m) ==
    {b \in [1 .. m -> 0 .. (n - 1)] :
        \A i, j \in 1 .. m : i # j => b[i] # b[j]}

\* the draw sequences for n records that leave the arrangement b in the
\* first m slots
Producing(b, cap, n, m) ==
    {ds \in DrawSeqs(n) : Ids(ArrAfter(ds, cap, n), m) = b}

\* C3: after each record, the slots 0 .. min(n, k) - 1 hold an ordered
\* arrangement of distinct records read so far, and that arrangement is
\* produced by exactly (number of draw sequences) / (number of
\* arrangements) draw sequences; every draw sequence being a run, every
\* arrangement is produced, and by the same number of draw sequences.
C3_Uniform ==
    pc = "sample" =>
       LET m == MIN(rec_no, nrecords)
           b == Ids(rec, m)
       IN /\ b \in Arrangements(rec_no, m)
          /\ Draws \in Producing(b, nrecords, rec_no, m)
          /\ Cardinality(Producing(b, nrecords, rec_no, m))
                * Cardinality(Arrangements(rec_no, m))
             = Cardinality(DrawSeqs(rec_no))

\* four records were read under cap 2, the last of them sits in slot 0 and
\* the first in slot 1
C3_Witness ==
    /\ pc = "sample"
    /\ nrecords = 2
    /\ rec_no = 4
    /\ Ids(rec, 2) = <<3, 0>>

(***************************************************************************)
(* The output loop on its own: one record from a spooled stream is held in *)
(* memory, every source is exhausted, and the template is any string over  *)
(* TemplateChars.                                                          *)
(***************************************************************************)
MaxTemplateLen == 3
TemplateChars ==
    {Ord["&"], Ord["\\"], Ord["0"], Ord["1"], Ord["9"], Ord["x"], Ord["a"],
     Ord["g"]}
RenderTemplates ==
    UNION {[1 .. n -> TemplateChars] : n \in 0 .. MaxTemplateLen}

\* an unterminated final record, a terminated record, and a terminated
\* record that was matched after end of input
RenderRecords ==
    {[bytes |-> <<Ord["a"]>>, last |-> TRUE],
     [bytes |-> <<Ord["a"], Delim>>, last |-> FALSE],
     [bytes |-> <<Ord["a"], Delim>>, last |-> TRUE]}

\* the sampling loop has left the one record x of source 0 in rec[0], held
\* in memory
RenderOf(x) ==
    /\ argv = <<>>
    /\ heap_limit = UINT32_MAX
    /\ ovector_size = OvectorSize(0, re)
    /\ w_buf_size = 0
    /\ got_siginfo = 0
    /\ stderr = <<>>
    /\ argj = 0
    /\ pc = "write"
    /\ nrecords = UINT32_MAX
    /\ argi = NFiles
    /\ rfd = NFiles - 1
    /\ rec = LET held == [len |-> 0 - Len(x.bytes),
                           f_idx |-> RecFIdx(0, x.last),
                           loc |-> 0, id |-> 0]
                 one == Sampled(NewArray, 0, UINT32_MAX, 0, held)
             IN GrowArray(one, Len(one), 1, UINT32_MAX)
    /\ memory_cache = memory_cache_initial - (Len(x.bytes) + RecOverhead)
    /\ stream = [d \in RFDs |-> IF d = 0 THEN x.bytes ELSE <<>>]
    /\ heap = {[p |-> 0, bytes |-> x.bytes]}
    /\ seen = <<[src |-> 0, bytes |-> x.bytes, last |-> x.last, r |-> 0]>>
    /\ rec_size = Len(rec)
    /\ rec_no = 1
    /\ r = 1
    /\ to_free = Garbage
    /\ to_free_valid = 0
    /\ out_i = 0
    /\ f = [d \in RFDs |-> OpenedFile(3 + 2 * d, d # 0)]
    /\ eof = TRUE
    /\ stream_eof = [d \in RFDs |-> TRUE]
    /\ spill = [d \in RFDs |-> <<>>]
    /\ stdout = <<>>
    /\ ub = FALSE
    /\ f_last = NFiles
    /\ f_size = 4
    /\ errno = "0"

InitRender ==
    /\ re = "delim"
    /\ delim \in RenderTemplates
    /\ \E x \in RenderRecords : RenderOf(x)

NextRender ==
    \/ WriteRecord
    \/ Finish

SpecRender == InitRender /\ [][NextRender]_vars
(***************************************************************************)
(* The template grammar as the specification's table of section 4.4 gives  *)
(* it, written without the state machine: the kinds of the items of a      *)
(* template, read from left to right.                                      *)
(***************************************************************************)
\* how many of the characters t[i], t[i + 1] are digits of the set ds,
\* counted from t[i] until the first that is not
DigitRun(t, i, ds) ==
    IF i > Len(t) \/ t[i] \notin ds THEN 0
    ELSE IF i + 1 > Len(t) \/ t[i + 1] \notin ds THEN 1
    ELSE 2

OctalDigits == {Ord["0"] + n : n \in 0 .. 7}
HexDigits ==
    {Ord["0"] + n : n \in 0 .. 9} \cup {Ord["a"] + n : n \in 0 .. 5}
       \cup {Ord["A"] + n : n \in 0 .. 5}
OneLetterEscapes ==
    {Ord["&"], Ord["\\"], Ord["a"], Ord["b"], Ord["f"], Ord["n"], Ord["r"],
     Ord["t"], Ord["v"]}

RECURSIVE TemplateItems(_, _)
TemplateItems(t, i) ==
    IF i > Len(t) THEN <<>>
    ELSE IF t[i] = Ord["&"] THEN <<"match">> \o TemplateItems(t, i + 1)
    ELSE IF t[i] # Ord["\\"] THEN <<"literal">> \o TemplateItems(t, i + 1)
    ELSE IF i = Len(t) THEN <<"invalid">>
    ELSE LET c == t[i + 1]
         IN IF c \in OneLetterEscapes
            THEN <<"escape">> \o TemplateItems(t, i + 2)
            ELSE IF c = Ord["x"]
            THEN IF DigitRun(t, i + 2, HexDigits) = 0
                 THEN <<"invalid">> \o TemplateItems(t, i + 2)
                 ELSE <<"hex">>
                         \o TemplateItems(t, i + 2 + DigitRun(t, i + 2, HexDigits))
            ELSE IF c \in {Ord["8"], Ord["9"]}
            THEN <<"backreference">> \o TemplateItems(t, i + 2)
            ELSE IF c \in OctalDigits
            THEN IF c # Ord["0"] /\ DigitRun(t, i + 2, OctalDigits) = 0
                 THEN <<"backreference">> \o TemplateItems(t, i + 2)
                 ELSE <<"octal">>
                         \o TemplateItems(t, i + 2 + DigitRun(t, i + 2, OctalDigits))
            ELSE <<"invalid">> \o TemplateItems(t, i + 2)

\* the template has an item of one of the kinds ks
Contains(t, ks) ==
    \E n \in 1 .. Len(TemplateItems(t, 1)) : TemplateItems(t, 1)[n] \in ks

\* the one record was rendered and the pattern had not terminated it
RenderedUnterminated ==
    /\ Len(stdout) = 1
    /\ Len(seen) = 1
    /\ Unterminated(seen[1].bytes)
    /\ seen[1].last

\* the run was ended by errx after an incomplete rendering
RenderFatal == pc = "fatal" /\ ~stdout[1].ok

\* the rendering wrote the whole record followed by what the template
\* expands to as a plain string (rec_write_str), and the run goes on
RenderWhole ==
    /\ pc # "fatal"
    /\ stdout[1].ok
    /\ stdout[1].bytes
          = seen[1].bytes \o rec_write_raw(delim, NULL, <<0, 0>>, 0).out

\* C8 as stated: an unterminated final record with a template that has an
\* unescaped & or a backreference is fatal, and with any other template the
\* rendering succeeds and writes the record followed by the expansion.
C8_AsStated ==
    RenderedUnterminated =>
       IF Contains(delim, {"match", "backreference"}) THEN RenderFatal
       ELSE RenderWhole

\* C8: rendering an unterminated final record is fatal when the template has
\* an unescaped &, a backreference or an invalid escape sequence (backslash
\* before a character that starts no escape, \x without a hexadecimal
\* digit, a backslash at the end); with a template that has none of these
\* the rendering succeeds and writes the whole record followed by the
\* template expansion.
C8_UnterminatedRender ==
    RenderedUnterminated =>
       IF Contains(delim, {"match", "backreference", "invalid"})
       THEN RenderFatal
       ELSE RenderWhole

\* the unterminated record "a" was rendered with the template a& : the
\* record and the literal were written, then the run ended
C8_Witness ==
    /\ RenderedUnterminated
    /\ delim = <<Ord["a"], Ord["&"]>>
    /\ pc = "fatal"
    /\ stdout[1].bytes = <<Ord["a"], Ord["a"]>>

\* the unterminated record "a" was rendered with the template \10, which has
\* neither & nor a backreference nor an invalid escape
C8_WitnessWhole ==
    /\ RenderedUnterminated
    /\ delim = <<Ord["\\"], Ord["1"], Ord["0"]>>
    /\ pc = "write"
    /\ stdout[1].bytes = <<Ord["a"], 8>>

(***************************************************************************)
(* Sampling errors and the start of the output.                            *)
(***************************************************************************)
\* a call on the current source has failed in this step with an error that
\* is not EAGAIN or EINTR (rec_open, or rec_next: matcher, write, malloc,
\* read)
HardFailure ==
    /\ pc \in {"open", "exec", "flush", "read"}
    /\ errno' # errno
    /\ errno' # "0"
    /\ ~Transient(errno')

\* the descriptor main opened for operand i (part_003:498-503)
FdOf(i) == 3 + 2 * i

\* C11: nothing is written to stdout before every source has been read to
\* its end; a failure of a source with an error other than EAGAIN/EINTR
\* ends the run at once with nothing written, and the run that ended
\* during sampling stands at the operand whose source failed (the name
\* errx prints is argv[i] of that operand).
C11_AllOrNothing ==
    /\ [](stdout # <<>> =>
             /\ argi = NFiles
             /\ \A d \in RFDs : stream_eof[d])
    /\ [][HardFailure => pc' = "fatal" /\ stdout' = <<>>]_vars
    /\ [](pc = "fatal" /\ argi < NFiles =>
             /\ stdout = <<>>
             /\ ~Transient(errno)
             /\ errno # "EMFILE" => f[rfd].fd = FdOf(argi))

\* the second source failed with EIO after a record of the first had been
\* read: the run has ended and nothing was written
C11_Witness ==
    /\ pc = "fatal"
    /\ errno = "EIO"
    /\ argi = 1
    /\ Len(seen) > 0
    /\ stdout = <<>>

(***************************************************************************)
(* main with -a (part_003:427-447): the operands themselves are the        *)
(* records.  Each pass of the loop draws one of the first j operands,      *)
(* prints it, writes the template after it with rec_write_str and moves    *)
(* the last of the j operands into its place.  An entry of stdout is the   *)
(* operand's index with the bytes written after the operand's text.        *)
(***************************************************************************)
\* the number of operands
NOperands == 1
\* the longest template given to -o
MaxStrLen == 5
StrChars ==
    {Ord["\\"], Ord["&"], Ord["x"], Ord["0"], Ord["1"], Ord["2"], Ord["4"],
     Ord["9"], Ord["a"], Ord["B"], Ord["g"]}
StrTemplates == UNION {[1 .. n -> StrChars] : n \in 0 .. MaxStrLen}

\* a rec_write_str that passes an empty match for the whole string
rec_write_strMatched(str) == rec_write_raw(str, NULL, <<0, 0>>, 1)

\* rec_write_str(str, file) (part_001:545-549)
rec_write_str(str) == rec_write_raw(str, NULL, <<0, 0>>, 0)

\* after option processing (part_003:387-433), -a given: n operands, the
\* cap one of caps and the -o string one of templates
ArgsStarted(n, caps, templates) ==
    /\ pc = "args"
    /\ heap_limit = UINT32_MAX
    /\ ovector_size = 0
    /\ w_buf_size = 0
    /\ got_siginfo = 0
    /\ stderr = <<>>
    /\ argv = <<>> \o [i \in 1 .. n |-> i - 1]
    /\ argj = n
    /\ nrecords \in caps
    /\ re = "delim"
    /\ delim \in templates
    /\ argi = 0
    /\ rfd = 0
    /\ rec = NewArray
    /\ rec_size = 0
    /\ rec_no = 0
    /\ r = 0
    /\ to_free = Garbage
    /\ to_free_valid = 0
    /\ memory_cache = memory_cache_initial
    /\ out_i = 0
    /\ f = [d \in RFDs |-> UnusedFile]
    /\ eof = FALSE
    /\ stream = [d \in RFDs |-> <<>>]
    /\ stream_eof = [d \in RFDs |-> FALSE]
    /\ spill = [d \in RFDs |-> <<>>]
    /\ heap = {}
    /\ stdout = <<>>
    /\ seen = <<>>
    /\ ub = FALSE
    /\ f_last = 0
    /\ f_size = 0
    /\ errno = "0"

\* after option processing, -a and -o given, no -n
InitStr == ArgsStarted(NOperands, {UINT32_MAX}, StrTemplates)

\* a loop condition that leaves the cap out
ArgsLeftAll == argj > 0

\* the loop condition of part_003:435
ArgsLeft ==
    argj > (IF nrecords > Len(argv) THEN 0 ELSE Len(argv) - nrecords)

\* one pass of the loop (part_003:436-444)
WriteOperand ==
    /\ pc = "args"
    /\ ArgsLeft
    /\ \E x \in random_uniform(argj) :
          LET w == rec_write_str(delim)
          IN /\ r' = x
             /\ stdout' = Append(stdout, [id |-> argv[x + 1], bytes |-> w.out,
                                          ok |-> w.err = ""])
             /\ IF w.err # ""
                THEN /\ pc' = "fatal"
                     /\ UNCHANGED argVars
                ELSE /\ pc' = "args"
                     /\ argv' = [argv EXCEPT ![x + 1] = argv[argj]]
                     /\ argj' = argj - 1
    /\ UNCHANGED <<nrecords, re, delim, argi, rfd, rec, rec_size, rec_no,
                   to_free, to_free_valid, memory_cache, out_i, f, eof,
                   stream, stream_eof, spill, heap, seen, ub, f_last, f_size,
                   errno, heap_limit, staticVars, sigVars>>

\* exit(0) after the loop (part_003:446)
ArgsExit ==
    /\ pc = "args"
    /\ ~ArgsLeft
    /\ pc' = "done"
    /\ UNCHANGED <<nrecords, re, delim, argi, rfd, rec, rec_size, rec_no, r,
                   to_free, to_free_valid, memory_cache, out_i, f, eof,
                   stream, stream_eof, spill, heap, stdout, seen, ub, f_last,
                   f_size, errno, argv, argj, heap_limit, staticVars,
                   sigVars>>

NextStr ==
    \/ WriteOperand
    \/ ArgsExit

SpecStr == InitStr /\ [][NextStr]_vars

(***************************************************************************)
(* The escapes of a template as they are documented (part_000:70-90, the   *)
(* escapes of C): the items of a template with the characters each takes,  *)
(* and the number a run of digits stands for.                              *)
(***************************************************************************)
\* the value of the digit c in a numeral of base 8 or 16
DigitValue(c) ==
    IF c \in {Ord["0"] + n : n \in 0 .. 9} THEN c - Ord["0"]
    ELSE IF c \in {Ord["a"] + n : n \in 0 .. 5} THEN c - Ord["a"] + 10
    ELSE c - Ord["A"] + 10

\* the number the digits t[from .. to] stand for in the base
RECURSIVE Numeral(_, _, _, _)
Numeral(t, from, to, base) ==
    IF to < from THEN 0
    ELSE base * Numeral(t, from, to - 1, base) + DigitValue(t[to])

\* an item: its kind, the index of its first character, the indexes of
\* its digits (hex, octal, backreference) and the index after it
Item(kind, at, from, to) ==
    [kind |-> kind, at |-> at, from |-> from, to |-> to, next |-> to + 1]

\* the items of t from index i on, with the kinds of TemplateItems
RECURSIVE Items(_, _)
Items(t, i) ==
    IF i > Len(t) THEN <<>>
    ELSE IF t[i] = Ord["&"]
    THEN <<Item("match", i, i, i)>> \o Items(t, i + 1)
    ELSE IF t[i] # Ord["\\"]
    THEN <<Item("literal", i, i, i)>> \o Items(t, i + 1)
    ELSE IF i = Len(t) THEN <<Item("invalid", i, i, i)>>
    ELSE LET c == t[i + 1]
             hex == DigitRun(t, i + 2, HexDigits)
             oct == DigitRun(t, i + 2, OctalDigits)
         IN IF c \in OneLetterEscapes
            THEN <<Item("escape", i, i + 1, i + 1)>> \o Items(t, i + 2)
            ELSE IF c = Ord["x"]
            THEN IF hex = 0
                 THEN <<Item("invalid", i, i + 1, i + 1)>> \o Items(t, i + 2)
                 ELSE <<Item("hex", i, i + 2, i + 1 + hex)>>
                         \o Items(t, i + 2 + hex)
            ELSE IF c \in {Ord["8"], Ord["9"]}
            THEN <<Item("backreference", i, i + 1, i + 1)>> \o Items(t, i + 2)
            ELSE IF c \in OctalDigits
            THEN IF c # Ord["0"] /\ oct = 0
                 THEN <<Item("backreference", i, i + 1, i + 1)>>
                         \o Items(t, i + 2)
                 ELSE <<Item("octal", i, i + 1, i + 1 + oct)>>
                         \o Items(t, i + 2 + oct)
            ELSE <<Item("invalid", i, i + 1, i + 1)>> \o Items(t, i + 2)

\* the kinds of the items of the template
Kinds(t) == {Items(t, 1)[n].kind : n \in 1 .. Len(Items(t, 1))}

\* the byte an item that stands for one byte stands for: the character
\* itself, the hexadecimal or the octal number
ItemByte(t, it) ==
    CASE it.kind = "literal" -> t[it.at]
      [] it.kind = "hex" -> Numeral(t, it.from, it.to, 16)
      [] it.kind = "octal" -> Numeral(t, it.from, it.to, 8)
      [] OTHER -> EscapeOf(t[it.from])

\* one byte for every item of the template
ItemBytes(t) == [n \in 1 .. Len(Items(t, 1)) |-> ItemByte(t, Items(t, 1)[n])]

\* the operand was written, followed by what the template produced
OperandWritten == Len(stdout) = 1 /\ Len(argv) = 1 /\ pc \in {"args", "done", "fatal"}

\* C12: a template made of \x escapes with one or two hexadecimal digits
\* and of ordinary characters is written as one byte for each: the
\* hexadecimal number (digits 0-9, a-f, A-F) for an escape, which takes at
\* most two digits, and the character itself for an ordinary character, also
\* for the one that ends a one-digit escape.
C12_HexEscape ==
    OperandWritten /\ Kinds(delim) \subseteq {"hex", "literal"} =>
       /\ stdout[1].ok
       /\ stdout[1].bytes = ItemBytes(delim)

\* the template \x0a was written as the byte 0 and \xB as the byte 1
C12_HexLetter ==
    /\ OperandWritten
    /\ \/ delim = <<Ord["\\"], Ord["x"], Ord["0"], Ord["a"]>>
          /\ stdout[1].bytes = <<0>>
       \/ delim = <<Ord["\\"], Ord["x"], Ord["B"]>>
          /\ stdout[1].bytes = <<1>>

\* the byte an item is written as: its number as an unsigned char
ItemChars(t) == [n \in 1 .. Len(Items(t, 1)) |-> ItemBytes(t)[n] % 256]

\* C13 as stated: a template made of octal escapes (\0 with up to two more
\* octal digits, \1 to \7 with one or two more) and of ordinary characters
\* is written as one byte for each, the byte of an escape having the value
\* of the octal number.
C13_AsStated ==
    OperandWritten /\ Kinds(delim) \subseteq {"octal", "literal"} =>
       /\ stdout[1].ok
       /\ stdout[1].bytes = ItemBytes(delim)

\* C13: a template made of octal escapes (\0 with up to two more octal
\* digits, \1 to \7 with one or two more) and of ordinary characters is
\* written as one byte for each; the byte of an escape is the octal number
\* modulo 256, an escape takes at most three digits, and \0 is a NUL byte
\* also at the end of the template.
C13_OctalEscape ==
    OperandWritten /\ Kinds(delim) \subseteq {"octal", "literal"} =>
       /\ stdout[1].ok
       /\ stdout[1].bytes = ItemChars(delim)

\* the template \1021 was written as B and the character 1
C13_Witness ==
    /\ OperandWritten
    /\ delim = <<Ord["\\"], Ord["1"], Ord["0"], Ord["2"], Ord["1"]>>
    /\ stdout[1].bytes = <<Ord["B"], Ord["1"]>>
    /\ pc = "done"

\* the template x\0 was written as x and a NUL byte
C13_WitnessNul ==
    /\ OperandWritten
    /\ delim = <<Ord["x"], Ord["\\"], Ord["0"]>>
    /\ stdout[1].bytes = <<Ord["x"], 0>>
    /\ pc = "done"

\* the template \400 was written as a NUL byte
C13_WitnessWrap ==
    /\ OperandWritten
    /\ delim = <<Ord["\\"], Ord["4"], Ord["0"], Ord["0"]>>
    /\ stdout[1].bytes = <<0>>

(***************************************************************************)
(* The output loop for one record of a source read with -e '(a)?(,)(a)?',  *)
(* with any template of the characters below.                              *)
(***************************************************************************)
MaxGroupTemplateLen == 4
GroupChars ==
    {Ord["\\"], Ord["&"], Ord["1"], Ord["2"], Ord["3"], Ord["9"], Ord["a"]}
GroupTemplates ==
    UNION {[1 .. n -> GroupChars] : n \in 0 .. MaxGroupTemplateLen}

\* records the pattern ends: with group 2 only, with groups 1 and 2, with
\* groups 2 and 3, with all three, and with a byte before the match
GroupRecords ==
    {[bytes |-> <<Delim>>, last |-> FALSE],
     [bytes |-> <<Ord["a"], Delim>>, last |-> FALSE],
     [bytes |-> <<Delim, Ord["a"]>>, last |-> FALSE],
     [bytes |-> <<Ord["a"], Delim, Ord["a"]>>, last |-> FALSE],
     [bytes |-> <<Ord["a"], Ord["a"], Delim>>, last |-> FALSE]}

InitGroups ==
    /\ re = "groups"
    /\ delim \in GroupTemplates
    /\ \E x \in GroupRecords : RenderOf(x)

SpecGroups == InitGroups /\ [][NextRender]_vars

(***************************************************************************)
(* What a template stands for, item by item, given the record's bytes p    *)
(* and the match m = [rc, ov] of the pattern in them (rc = 0: there is no  *)
(* match).                                                                 *)
(***************************************************************************)
\* the group an item refers to: 0, the whole match, for &
GroupOf(t, it) == IF it.kind = "match" THEN 0 ELSE t[it.from] - Ord["0"]

\* group n is one of the groups the match returned
Returned(m, n) == n < m.rc

\* group n took part in the match
TookPart(m, n) == Returned(m, n) /\ m.ov[2 * n + 1] >= 0

\* the text of group n, nothing if it took no part
GroupText(p, m, n) ==
    IF TookPart(m, n) THEN SubSeq(p, m.ov[2 * n + 1] + 1, m.ov[2 * n + 2])
    ELSE <<>>

\* the item cannot be written: an invalid escape, or a reference to a group
\* that was not returned or (unsetFatal) took no part
Fails(t, it, m, unsetFatal) ==
    \/ it.kind = "invalid"
    \/ /\ it.kind \in {"match", "backreference"}
       /\ \/ ~Returned(m, GroupOf(t, it))
          \/ unsetFatal /\ ~TookPart(m, GroupOf(t, it))

\* the bytes of the items its[k ..] up to the first that fails, and whether
\* none failed
RECURSIVE Expand(_, _, _, _, _, _)
Expand(t, its, k, p, m, unsetFatal) ==
    IF k > Len(its) THEN [out |-> <<>>, ok |-> TRUE]
    ELSE IF Fails(t, its[k], m, unsetFatal) THEN [out |-> <<>>, ok |-> FALSE]
    ELSE LET rest == Expand(t, its, k + 1, p, m, unsetFatal)
             here == IF its[k].kind \in {"match", "backreference"}
                     THEN GroupText(p, m, GroupOf(t, its[k]))
                     ELSE <<ItemByte(t, its[k]) % 256>>
         IN [out |-> here \o rest.out, ok |-> rest.ok]

\* the one record has been rendered
Rendered == Len(stdout) = 1 /\ Len(seen) = 1

\* the match rec_write found in the record
MatchOf ==
    LET wm == WriteMatch(re, seen[1].bytes, Len(seen[1].bytes),
                         MatchOptions(seen[1].last))
    IN [rc |-> wm.valid, ov |-> wm.ov]

\* what was written is the record up to the match followed by e.out, and
\* the rendering failed exactly if e is not ok
WroteExpansion(e) ==
    /\ stdout[1].bytes = SubSeq(seen[1].bytes, 1, MatchOf.ov[1]) \o e.out
    /\ stdout[1].ok = e.ok

\* the error rec_write returned for the record ("" if none), which errx
\* prints
RenderError ==
    rec_write(re, delim, seen[1].bytes, Len(seen[1].bytes),
              MatchOptions(seen[1].last)).err

\* every reference of the template to a group the match returned is to one
\* that took part
NoUnsetReference ==
    \A n \in 1 .. Len(Items(delim, 1)) :
       LET it == Items(delim, 1)[n]
       IN it.kind \in {"match", "backreference"} /\ Returned(MatchOf, GroupOf(delim, it))
             => TookPart(MatchOf, GroupOf(delim, it))

\* C14: in a template \8 and \9 are backreferences, \1 to \7 before anything
\* but an octal digit is a backreference to that group, and \1 to \7 before
\* an octal digit is an octal byte: a template of such items and ordinary
\* characters is written as the text of the group for each backreference (or
\* ends the rendering there with the error of an invalid backreference if
\* the match returned no such group) and as one byte for each octal escape,
\* never as a group followed by a digit.
C14_BackreferenceOrOctal ==
    Rendered /\ Kinds(delim) \subseteq {"octal", "backreference", "literal"}
             /\ NoUnsetReference =>
       /\ WroteExpansion(Expand(delim, Items(delim, 1), 1, seen[1].bytes,
                                MatchOf, FALSE))
       /\ ~stdout[1].ok => RenderError = "invalid backreference"

\* the record a, was rendered with \12 as the byte 10, not as group 1 and
\* the character 2
C14_Witness ==
    /\ Rendered
    /\ seen[1].bytes = <<Ord["a"], Delim>>
    /\ delim = <<Ord["\\"], Ord["1"], Ord["2"]>>
    /\ stdout[1].bytes = <<10>>
    /\ pc = "write"

\* the record a, was rendered with \19 as group 1 and the character 9
C14_WitnessGroup ==
    /\ Rendered
    /\ seen[1].bytes = <<Ord["a"], Delim>>
    /\ delim = <<Ord["\\"], Ord["1"], Ord["9"]>>
    /\ stdout[1].bytes = <<Ord["a"], Ord["9"]>>
    /\ pc = "write"

\* the record a, was rendered with a\9: the reference to group 9 ended the
\* run
C14_WitnessNine ==
    /\ Rendered
    /\ seen[1].bytes = <<Ord["a"], Delim>>
    /\ delim = <<Ord["a"], Ord["\\"], Ord["9"]>>
    /\ stdout[1].bytes = <<Ord["a"]>>
    /\ RenderError = "invalid backreference"
    /\ pc = "fatal"

\* C15: a reference to a group that was not part of the match ends the
\* rendering with an error, nothing being written for it, both when the
\* match returned no group of that number and when it returned the group as
\* one that took no part.
C15_UnmatchedGroupFatal ==
    Rendered /\ Kinds(delim) \subseteq {"match", "backreference", "literal"} =>
       WroteExpansion(Expand(delim, Items(delim, 1), 1, seen[1].bytes,
                             MatchOf, TRUE))

\* the record , in which group 1 took no part, was rendered with \1a: the
\* character a was written and the run goes on
C15_UnsetSilent ==
    /\ Rendered
    /\ seen[1].bytes = <<Delim>>
    /\ ~TookPart(MatchOf, 1)
    /\ delim = <<Ord["\\"], Ord["1"], Ord["a"]>>
    /\ stdout[1].ok
    /\ stdout[1].bytes = <<Ord["a"]>>
    /\ pc = "write"

\* a plain string has no match
NoMatch == [rc |-> 0, ov |-> <<>>]

\* the index of the first item of the template that cannot be written as a
\* plain string, 0 if there is none
FirstFailing(t) ==
    LET bad == {n \in 1 .. Len(Items(t, 1)) :
                   Fails(t, Items(t, 1)[n], NoMatch, TRUE)}
    IN IF bad = {} THEN 0 ELSE CHOOSE n \in bad : \A k \in bad : n <= k

\* the error rec_write_str returned for the template ("" if none)
StrError == rec_write_str(delim).err

\* the errors of an invalid escape sequence (part_001:697-700, 714-718)
InvalidEscapeErrors == {"invalid escape", "expected a hex digit"}

\* C16: a backslash before anything but & \ a b f n r t v, x with a
\* hexadecimal digit, or a digit (so also a backslash at the end of the
\* template and \x before anything but a hexadecimal digit) ends the run
\* with the error of an invalid escape sequence; what was written is what
\* the template before that backslash produces, and nothing after it.  No
\* other template gives that error.
C16_InvalidEscape ==
    OperandWritten =>
       LET n == FirstFailing(delim)
           invalid == n # 0 /\ Items(delim, 1)[n].kind = "invalid"
       IN /\ invalid <=> StrError \in InvalidEscapeErrors
          /\ invalid =>
                /\ pc = "fatal"
                /\ ~stdout[1].ok
                /\ stdout[1].bytes
                      = rec_write_str(SubSeq(delim, 1, Items(delim, 1)[n].at - 1)).out

\* the template a\gB ended the run after the character a
C16_Witness ==
    /\ OperandWritten
    /\ delim = <<Ord["a"], Ord["\\"], Ord["g"], Ord["B"]>>
    /\ stdout[1].bytes = <<Ord["a"]>>
    /\ StrError = "invalid escape"
    /\ pc = "fatal"

\* so did a backslash at the end of the template
C16_WitnessLone ==
    /\ OperandWritten
    /\ delim = <<Ord["a"], Ord["\\"]>>
    /\ stdout[1].bytes = <<Ord["a"]>>
    /\ StrError = "invalid escape"
    /\ pc = "fatal"

\* and \x before a character that is no hexadecimal digit
C16_WitnessHex ==
    /\ OperandWritten
    /\ delim = <<Ord["a"], Ord["\\"], Ord["x"], Ord["g"]>>
    /\ stdout[1].bytes = <<Ord["a"]>>
    /\ StrError = "expected a hex digit"
    /\ pc = "fatal"

\* the template refers only to groups that took part in the match
AllReferencesMatched ==
    \A n \in 1 .. Len(Items(delim, 1)) :
       LET it == Items(delim, 1)[n]
       IN it.kind \in {"match", "backreference"}
             => TookPart(MatchOf, GroupOf(delim, it))

\* C17: a record in which the pattern is found is written as its bytes
\* before the match followed by the template's expansion: the whole match
\* for &, the text of group N for \N, an ampersand for \& and a backslash
\* for \\ (the other characters as they are); so the template & writes the
\* record's bytes exactly.
C17_RecordRendering ==
    Rendered /\ MatchOf.rc > 0 =>
       /\ Kinds(delim) \subseteq {"match", "backreference", "escape", "literal"}
             /\ AllReferencesMatched =>
             /\ stdout[1].ok
             /\ WroteExpansion(Expand(delim, Items(delim, 1), 1,
                                      seen[1].bytes, MatchOf, TRUE))
       /\ delim = <<Ord["&"]>> => stdout[1].bytes = seen[1].bytes

\* the record aa, of which a, is the match, was rendered with &\1 as the
\* record followed by group 1
C17_Witness ==
    /\ Rendered
    /\ seen[1].bytes = <<Ord["a"], Ord["a"], Delim>>
    /\ delim = <<Ord["&"], Ord["\\"], Ord["1"]>>
    /\ stdout[1].bytes = <<Ord["a"], Ord["a"], Delim, Ord["a"]>>
    /\ pc = "write"

\* the record a,a was rendered with \&\\ as an ampersand and a backslash
C17_WitnessEscapes ==
    /\ Rendered
    /\ seen[1].bytes = <<Ord["a"], Delim, Ord["a"]>>
    /\ delim = <<Ord["\\"], Ord["&"], Ord["\\"], Ord["\\"]>>
    /\ stdout[1].bytes = <<Ord["&"], Ord["\\"]>>
    /\ pc = "write"

\* the record aa, was rendered with & as aa,
C17_WitnessWhole ==
    /\ Rendered
    /\ seen[1].bytes = <<Ord["a"], Ord["a"], Delim>>
    /\ delim = <<Ord["&"]>>
    /\ stdout[1].bytes = seen[1].bytes
    /\ pc = "write"

\* a record the delimiter pattern ends, for comparison
PlainRecord == <<Ord["a"], Delim>>

\* C18: rec_write_str writes a string of ordinary characters and of the
\* escapes for control characters, hexadecimal and octal bytes, \& and \\
\* as rec_write writes it as the template of a record, after the record;
\* an unescaped & or a backreference in the string ends the run with an
\* error that names -a, after what the string before it produces.
C18_PlainString ==
    OperandWritten =>
       LET n == FirstFailing(delim)
           its == Items(delim, 1)
       IN /\ Kinds(delim) \subseteq {"literal", "escape", "hex", "octal"} =>
                /\ stdout[1].ok
                /\ <<Ord["a"]>> \o stdout[1].bytes
                      = rec_write("delim", delim, PlainRecord, Len(PlainRecord),
                                  PCRE_NOTEOL).out
          /\ n # 0 /\ its[n].kind \in {"match", "backreference"} =>
                /\ pc = "fatal"
                /\ ~stdout[1].ok
                /\ StrError = "passed -a"
                /\ stdout[1].bytes = rec_write_str(SubSeq(delim, 1, its[n].at - 1)).out

\* the string \x41& ended the run after the byte A
C18_Witness ==
    /\ OperandWritten
    /\ delim = <<Ord["\\"], Ord["x"], Ord["4"], Ord["1"], Ord["&"]>>
    /\ stdout[1].bytes = <<Ord["A"]>>
    /\ StrError = "passed -a"
    /\ pc = "fatal"

\* the string g\1 ended the run after the character g
C18_WitnessBackreference ==
    /\ OperandWritten
    /\ delim = <<Ord["g"], Ord["\\"], Ord["1"]>>
    /\ stdout[1].bytes = <<Ord["g"]>>
    /\ StrError = "passed -a"
    /\ pc = "fatal"

\* the string \&\\x was written as an ampersand, a backslash and x
C18_WitnessPlain ==
    /\ OperandWritten
    /\ delim = <<Ord["\\"], Ord["&"], Ord["\\"], Ord["\\"], Ord["x"]>>
    /\ stdout[1].bytes = <<Ord["&"], Ord["\\"], Ord["x"]>>
    /\ pc = "done"

(***************************************************************************)
(* The program with one operand and a heap that can hold copies of         *)
(* 0 .. MaxBytes bytes in all, so that the malloc of rec_next               *)
(* (part_001:423) can fail.                                                *)
(***************************************************************************)
InitKeep == Started(NFiles - 1, 0 .. MaxBytes)

SpecKeep == InitKeep /\ [][Next]_vars

(***************************************************************************)
(* What rec_next does with a record it returns.                            *)
(***************************************************************************)
\* rec_next returns 0 in this step, having filled in rec[r]
ReturnsRecord ==
    /\ pc = "exec"
    /\ pc' = "draw"
    /\ rec_no' = rec_no + 1
    /\ HasTarget(r, nrecords)

\* what main's rec_free(&to_free) gives back to the budget in the same
\* step (part_003:580-589)
EvictGain == IF Evicts(rec_no, nrecords, r) THEN FreeCache(0, to_free) ELSE 0

\* the budget as rec_next left it
BudgetAfterNext == memory_cache' - EvictGain

\* malloc(len) returned a block in this step and rc points to it
Allocated(rc) ==
    /\ HeapBytes(heap) + REC_LEN(rc) <= heap_limit
    /\ \E b \in heap' \ heap : b.p = rc.loc /\ Len(b.bytes) = REC_LEN(rc)

\* C19: a record rec_next returns is held in a buffer of its own, and the
\* budget is smaller by its footprint, only if the source is spooled to a
\* temporary file, the budget was at least the footprint and the malloc of
\* the copy succeeded; otherwise the record is a reference to its offset
\* and the budget is as it was.  A record of a seekable source is always a
\* reference.
C19_Retention ==
    [][ReturnsRecord =>
          LET new == rec'[r + 1]
              fp == REC_ESTIMATED_MEMORY_USE(new)
          IN /\ ~REC_IS_OFFSET(new) =>
                   /\ Spooling(f[rfd])
                   /\ memory_cache >= fp
                   /\ Allocated(new)
                   /\ BudgetAfterNext = memory_cache - fp
             /\ REC_IS_OFFSET(new) =>
                   /\ new.loc = f[rfd].offset
                   /\ heap' \subseteq heap
                   /\ BudgetAfterNext = memory_cache
             /\ ~Spooling(f[rfd]) => REC_IS_OFFSET(new)]_vars

\* the first record of a spooled source is held in memory, the heap having
\* room for just one byte, and the budget has paid for it
C19_Witness ==
    /\ pc = "draw"
    /\ rec_no = 1
    /\ heap_limit = 1
    /\ Spooling(f[rfd])
    /\ ~REC_IS_OFFSET(rec[1])
    /\ REC_LEN(rec[1]) = 1
    /\ memory_cache = memory_cache_initial - (1 + RecOverhead)

\* with no room on the heap the first record of a spooled source is a
\* reference and the budget is whole
C19_WitnessNoMemory ==
    /\ pc = "draw"
    /\ rec_no = 1
    /\ heap_limit = 0
    /\ Spooling(f[rfd])
    /\ REC_IS_OFFSET(rec[1])
    /\ heap = {}
    /\ memory_cache = memory_cache_initial

\* the budget does not cover the third record of a spooled source: it is a
\* reference, the two before it are held in memory
C19_WitnessNoBudget ==
    /\ pc = "draw"
    /\ rec_no = 3
    /\ nrecords = UINT32_MAX
    /\ Spooling(f[rfd])
    /\ ~REC_IS_OFFSET(rec[1])
    /\ ~REC_IS_OFFSET(rec[2])
    /\ REC_IS_OFFSET(rec[3])
    /\ memory_cache < REC_ESTIMATED_MEMORY_USE(rec[3])
    /\ HeapBytes(heap) + REC_LEN(rec[3]) <= heap_limit

(***************************************************************************)
(* The calls of rec_next that return -1.                                   *)
(***************************************************************************)
\* rec_next returns -1 at end of input (part_001:319-336)
ReturnsEOF == pc = "exec" /\ pc' \in {"open", "write"}

\* rec_next returns -1 after pcre_exec failed with an error other than
\* PCRE_ERROR_NOMATCH (part_001:313-317)
ReturnsMatcherError == pc = "exec" /\ pc' = "fatal"

\* rec_next returns -1 after write, malloc or read failed
\* (part_001:346-359, 369-376, 391-392)
ReturnsIOError ==
    \/ pc = "flush" /\ pc' \in {"exec", "fatal"}
    \/ pc = "read" /\ pc' = "fatal"
    \/ pc = "read" /\ pc' = "exec" /\ ~eof' /\ stream' = stream

\* C20: when rec_next returns -1 (end of input, matcher error, failed
\* write, malloc or read) the caller's records are as they were; at end of
\* input errno is 0, after a matcher error it is EINVAL, and after any other
\* failure it is neither.
C20_FailureLeavesRecord ==
    [][/\ ReturnsEOF \/ ReturnsMatcherError \/ ReturnsIOError => rec' = rec
       /\ ReturnsEOF => errno' = "0" /\ eof /\ Ovector(re, f[rfd], eof) = <<>>
       /\ ReturnsMatcherError => errno' = "EINVAL"
       /\ ReturnsIOError => errno' \notin {"0", "EINVAL"}]_vars

\* the read for the second record failed with EIO: the run has ended, the
\* first record is still in its slot
C20_Witness ==
    /\ pc = "fatal"
    /\ errno = "EIO"
    /\ rec_no = 1
    /\ r = 0
    /\ rec[1].id = 0
    /\ REC_LEN(rec[1]) = 1

\* the first source ended after one record, with errno 0; the call that
\* found the end had that record's slot as its target
C20_WitnessEOF ==
    /\ pc = "open"
    /\ argi = 1
    /\ errno = "0"
    /\ rec_no = 1
    /\ r = 0
    /\ rec[1].id = 0

\* a call ended with EINVAL
C20_WitnessMatcher ==
    /\ pc = "fatal"
    /\ errno = "EINVAL"

(***************************************************************************)
(* record.c on its own: rec_open and rec_close called in any order by a    *)
(* program that keeps at most MaxOpen record file descriptors open, and    *)
(* rec_write called on records of the open ones.  seen holds the last call *)
(* and the size of f[] it found.                                           *)
(***************************************************************************)
MaxOpen == 5

\* the entries f[] can come to have
TableSlots == 0 .. (NewFilesSize(MaxOpen) - 1)

\* the record file descriptors that are open (part_001:134, 245)
OpenRFDs(t) == {i \in 0 .. (t.f_last - 1) : t.f[i].offset # -1}

\* the call just made
Call(op, arg, rv, nomem) ==
    <<[op |-> op, arg |-> arg, rv |-> rv, size |-> f_size, nomem |-> nomem]>>

InitTable ==
    /\ pc = "table"
    /\ f = [d \in TableSlots |-> UnusedFile]
    /\ f_last = 0
    /\ f_size = 0
    /\ ovector_size = 0
    /\ w_buf_size = 0
    /\ got_siginfo = 0
    /\ stderr = <<>>
    /\ seen = <<>>
    /\ rfd = 0
    /\ errno = "0"
    /\ heap_limit = UINT32_MAX
    /\ argv = <<>>
    /\ argj = 0
    /\ nrecords = UINT32_MAX
    /\ re \in {"delim", "groups"}
    /\ delim = <<Ord["\\"], Ord["n"]>>
    /\ argi = 0
    /\ rec = NewArray
    /\ rec_size = RecSizeInit
    /\ rec_no = 0
    /\ r = 0
    /\ to_free = Garbage
    /\ to_free_valid = 0
    /\ memory_cache = memory_cache_initial
    /\ out_i = 0
    /\ eof = FALSE
    /\ stream = [d \in RFDs |-> <<>>]
    /\ stream_eof = [d \in RFDs |-> FALSE]
    /\ spill = [d \in RFDs |-> <<>>]
    /\ heap = {}
    /\ stdout = <<>>
    /\ ub = FALSE

\* what the calls on the table leave alone
tableFrame ==
    <<pc, nrecords, re, delim, argi, rec, rec_size, rec_no, r, to_free,
      to_free_valid, memory_cache, out_i, eof, ub, errno, argVars, heap_limit,
      envVars, sigVars>>

\* rfd = rec_open(fd, ..., re, ...) (part_001:119-224), of a regular file or
\* of one that is not, when mkstemp fails
TableOpen ==
    /\ pc = "table"
    /\ Cardinality(OpenRFDs(Table)) < MaxOpen
    /\ \E regular \in BOOLEAN, realloc_ok \in BOOLEAN :
          LET o == rec_open(Table, 3, re, regular, FALSE, realloc_ok)
          IN /\ f' = o.t.f
             /\ f_last' = o.t.f_last
             /\ f_size' = o.t.f_size
             /\ ovector_size' = o.t.ovector_size
             /\ w_buf_size' = o.t.w_buf_size
             /\ rfd' = o.rv
             /\ seen' = Call("rec_open", 3, o.rv, FALSE)
    /\ UNCHANGED tableFrame

\* rec_write of a record of 1 or MaxBytes bytes that lies in the file of
\* an open descriptor (part_001:476-495)
TableWrite ==
    /\ pc = "table"
    /\ OpenRFDs(Table) # {}
    /\ \E len \in {1, MaxBytes} :
          /\ w_buf_size' = WBufSize(w_buf_size, len)
          /\ seen' = Call("rec_write", len, 0, FALSE)
    /\ UNCHANGED <<f, f_last, f_size, ovector_size, rfd>>
    /\ UNCHANGED tableFrame

\* rec_close(d) of an open descriptor (part_001:226-278)
TableClose ==
    /\ pc = "table"
    /\ \E d \in OpenRFDs(Table), realloc_ok \in BOOLEAN :
          LET t == rec_close(Table, d, realloc_ok)
          IN /\ f' = t.f
             /\ f_last' = t.f_last
             /\ f_size' = t.f_size
             /\ ovector_size' = t.ovector_size
             /\ w_buf_size' = t.w_buf_size
             /\ seen' = Call("rec_close", d, 0,
                             /\ d = f_last - 1
                             /\ PastUsed(ClosedEntry(f, d), d) < f_size \div 4
                             /\ ~realloc_ok)
    /\ UNCHANGED rfd
    /\ UNCHANGED tableFrame

NextTable ==
    \/ TableOpen
    \/ TableWrite
    \/ TableClose

SpecTable == InitTable /\ [][NextTable]_vars

\* rec_assert_released() passes (part_001:280-289)
Released ==
    /\ f_size = 0
    /\ f_last = 0
    /\ ovector_size = 0
    /\ w_buf_size = 0

\* every record file descriptor that was opened has been closed
AllClosed == seen # <<>> /\ OpenRFDs(Table) = {}

\* C21: once every record file descriptor that was opened has been closed,
\* in whatever order, the file table is empty (f_size and f_last are 0) and
\* the match vector and the write buffer are freed, so that
\* rec_assert_released() passes.
C21_AllClosedReleased == AllClosed => Released

\* C21: two descriptors were opened and closed, the lower one last, every
\* realloc of that last call aside (it made none): f[] still has its 4
\* entries, f_last is 2 and the match vector is still allocated.
C21_Leaked ==
    /\ AllClosed
    /\ seen[1].op = "rec_close"
    /\ seen[1].arg = 0
    /\ ~seen[1].nomem
    /\ f_size = 4
    /\ f_last = 2
    /\ ovector_size > 0

\* the call just made was a rec_open that returned the descriptor rfd
Opened ==
    /\ seen' # <<>>
    /\ seen'[1].op = "rec_open"
    /\ rfd' # -1

\* C22: the descriptor rec_open returns was not open when it was called and
\* every lower descriptor was, whatever rec_open and rec_close calls came
\* before (those that shrank the file table included); after the call it is
\* open.
C22_LowestFree ==
    [][Opened =>
          /\ rfd' \notin OpenRFDs(Table)
          /\ \A i \in 0 .. (rfd' - 1) : i \in OpenRFDs(Table)
          /\ rfd' \in OpenRFDs(Table)']_vars

\* C22: rec_open has returned descriptor 1, which had been closed while
\* descriptors 0 and 2 stay open
C22_Witness ==
    /\ seen # <<>>
    /\ seen[1].op = "rec_open"
    /\ rfd = 1
    /\ OpenRFDs(Table) = {0, 1, 2}
    /\ seen[1].size = 4

\* C22: rec_open has returned descriptor 1 from a table a rec_close had
\* shrunk to one entry
C22_WitnessShrunk ==
    /\ seen # <<>>
    /\ seen[1].op = "rec_open"
    /\ rfd = 1
    /\ seen[1].size = 1
    /\ f_size = 4

(***************************************************************************)
(* The mode that treats the operands as records, with several operands and *)
(* a cap from -n.                                                          *)
(***************************************************************************)
MaxOperands == 3

\* the -o strings explored: \n, a comma, \& and (an error) &
ArgTemplates ==
    {<<Ord["\\"], Ord["n"]>>, <<Delim>>, <<Ord["\\"], Ord["&"]>>, <<Ord["&"]>>}

InitArgs ==
    \E n \in 0 .. MaxOperands :
       ArgsStarted(n, (1 .. MaxCap) \cup {UINT32_MAX}, ArgTemplates)

SpecArgs == InitArgs /\ [][NextStr]_vars

\* the operands written so far, by their positions on the command line
Positions == [n \in 1 .. Len(stdout) |-> stdout[n].id]

\* no input file was opened and no pattern was applied
NothingRead ==
    /\ f_last = 0
    /\ f_size = 0
    /\ ovector_size = 0
    /\ \A d \in RFDs : f[d] = UnusedFile /\ stream[d] = <<>> /\ spill[d] = <<>>
    /\ seen = <<>>
    /\ rec_no = 0

\* C23: with -a the output of a run that ends successfully is exactly
\* min(N, number of operands) operands, no position of the command line is
\* written twice, each operand is followed by the -o string as it is written
\* without a match, and at no time is an input file opened or the pattern
\* applied.
C23_OperandsMode ==
    /\ NothingRead
    /\ \A m, n \in 1 .. Len(stdout) : Positions[m] = Positions[n] => m = n
    /\ \A n \in 1 .. Len(stdout) : Positions[n] \in 0 .. (Len(argv) - 1)
    /\ pc = "done" =>
          /\ Len(stdout) = (IF nrecords < Len(argv) THEN nrecords ELSE Len(argv))
          /\ \A n \in 1 .. Len(stdout) :
                /\ stdout[n].ok
                /\ <<Ord["a"]>> \o stdout[n].bytes
                      = rec_write("delim", delim, PlainRecord, Len(PlainRecord),
                                  PCRE_NOTEOL).out

\* C23: -n 2 and three operands: the third and the first were written, each
\* followed by a newline, and the run ended
C23_Witness ==
    /\ pc = "done"
    /\ nrecords = 2
    /\ Len(argv) = 3
    /\ Positions = <<2, 0>>
    /\ \A n \in 1 .. 2 : stdout[n].bytes = <<10>>

\* C23: no -n and three operands: all three were written
C23_WitnessAll ==
    /\ pc = "done"
    /\ nrecords = UINT32_MAX
    /\ Len(argv) = 3
    /\ Len(stdout) = 3

(***************************************************************************)
(* Option processing (part_003:387-419) before the run: -n optarg or no -n *)
(* at all, then the one operand as Spec reads it.                          *)
(***************************************************************************)
MaxOptLen == 2

\* the characters of the -n operands explored
OptChars == {Ord["0"], Ord["1"], Ord["2"], Ord["a"]}

\* the -n operands explored
OptArgs == UNION {[1 .. n -> OptChars] : n \in 1 .. MaxOptLen}

\* a strtonum that takes every number of digits for valid
strtonumAny(nptr, minval, maxval) ==
    IF \E i \in 1 .. Len(nptr) : ~isdigit(nptr[i])
    THEN [val |-> 0, errstr |-> "invalid", errno |-> "EINVAL"]
    ELSE [val |-> Numeral(nptr, 1, Len(nptr), 10), errstr |-> "", errno |-> ""]

\* strtonum(nptr, minval, maxval, &errstr) for a string without a sign: the
\* value returned, errstr, and the errno it sets ("": none)
strtonum(nptr, minval, maxval) ==
    IF \E i \in 1 .. Len(nptr) : ~isdigit(nptr[i])
    THEN [val |-> 0, errstr |-> "invalid", errno |-> "EINVAL"]
    ELSE IF Numeral(nptr, 1, Len(nptr), 10) < minval
    THEN [val |-> 0, errstr |-> "too small", errno |-> "ERANGE"]
    ELSE IF Numeral(nptr, 1, Len(nptr), 10) > maxval
    THEN [val |-> 0, errstr |-> "too large", errno |-> "ERANGE"]
    ELSE [val |-> Numeral(nptr, 1, Len(nptr), 10), errstr |-> "", errno |-> ""]

InitCap == StartedAt("options", {UINT32_MAX}, NFiles - 1, {UINT32_MAX})

\* what option processing leaves alone
optionsFrame ==
    <<re, delim, argi, rfd, rec, rec_size, rec_no, r, to_free, to_free_valid,
      memory_cache, out_i, f, eof, seen, ub, f_last, f_size, argVars,
      heap_limit, staticVars, envVars, sigVars>>

\* case 'n' of the getopt loop (part_003:405-410)
OptionN ==
    /\ pc = "options"
    /\ \E optarg \in OptArgs :
          LET n == strtonum(optarg, 1, UINT32_MAX - 1)
          IN /\ nrecords' = n.val
             /\ errno' = IF n.errno # "" THEN n.errno ELSE errno
             /\ pc' = IF n.errstr # "" THEN "fatal" ELSE "options"
    /\ UNCHANGED optionsFrame

\* getopt returns -1 (part_003:393, 420-425)
OptionsEnd ==
    /\ pc = "options"
    /\ pc' = "open"
    /\ UNCHANGED <<nrecords, errno>>
    /\ UNCHANGED optionsFrame

NextCap ==
    \/ OptionN
    \/ OptionsEnd
    \/ RecOpen
    \/ Draw
    \/ RecNextRecord
    \/ RecNextEOF
    \/ RecNextMore
    \/ RecNextBadOffset
    \/ RecNextFlush
    \/ RecNextRead
    \/ WriteRecord
    \/ Finish

SpecCap == InitCap /\ [][NextCap]_vars

\* -n was given a number below 1 (the numbers explored are below
\* UINT32_MAX - 1)
ZeroCap == nrecords = 0 /\ errno = "ERANGE"

\* C24, as stated: asking for 0 records gives no error.
C24_ZeroCapNoError == ~(ZeroCap /\ pc = "fatal")

\* nothing was opened, read, retained or written
Untouched ==
    /\ f_last = 0
    /\ \A d \in RFDs : f[d] = UnusedFile /\ stream[d] = <<>> /\ spill[d] = <<>>
    /\ seen = <<>>
    /\ rec_no = 0
    /\ heap = {}
    /\ stdout = <<>>

\* C24: a cap of 0 is rejected while the options are processed: nrecords is
\* 0 only in a run that -n ended with an error before any source was
\* opened, and nothing was read, retained or written; a run that goes on has
\* a cap of at least 1.
C24_ZeroCapRejected ==
    /\ nrecords = 0 => pc = "fatal" /\ Untouched
    /\ pc \notin {"options", "fatal"} => nrecords >= 1

\* C24: -n 0 (or -n 00) has ended the run with an error
C24_Witness == ZeroCap /\ pc = "fatal" /\ Untouched

(***************************************************************************)
(* A build with HAVE_SIGINFO: SIGINFO can arrive between any two steps of  *)
(* main, while it reads its one operand and while it writes.               *)
(***************************************************************************)
MaxMessages == 2

InitSignal == StartedAt("open", {1, UINT32_MAX}, NFiles - 1, {UINT32_MAX})

\* the kernel runs handle_siginfo (part_003:329-337, 360-366)
Signal ==
    /\ pc \notin {"done", "fatal", "abort", "hang"}
    /\ Len(stderr) < MaxMessages
    /\ got_siginfo' = handle_siginfo
    /\ UNCHANGED <<pc, stderr, f, eof, seen, ub, f_last, f_size, errno, argVars,
                   heap_limit, staticVars>>
    /\ UNCHANGED mainVars
    /\ UNCHANGED envVars

NextSignal ==
    \/ Signal
    \/ RecOpen
    \/ Draw
    \/ RecNextRecord
    \/ RecNextEOF
    \/ RecNextMore
    \/ RecNextBadOffset
    \/ RecNextFlush
    \/ RecNextRead
    \/ WriteRecord
    \/ Finish

SpecSignal == InitSignal /\ [][NextSignal]_vars

\* every variable but the flag
butFlag ==
    <<pc, stderr, f, eof, seen, ub, f_last, f_size, errno, argVars, heap_limit,
      staticVars, mainVars, envVars>>

\* main is at a step that ends by passing try_again (part_003:548) or that
\* starts at try_again2 (part_003:597)
AtPollingPoint == pc \in {"draw", "flush", "read", "write"}

\* C25: a step that sets the flag (the handler's) changes nothing else, so
\* it writes nothing; a step that writes a progress message is a step of
\* main at one of its polling points, taken with the flag set, that writes
\* that one message and clears the flag.
C25_HandlerSetsFlagOnly ==
    [][/\ got_siginfo = 0 /\ got_siginfo' # 0 => UNCHANGED butFlag
       /\ stderr' # stderr =>
             /\ AtPollingPoint
             /\ got_siginfo # 0
             /\ got_siginfo' = 0
             /\ Len(stderr') = Len(stderr) + 1
             /\ SubSeq(stderr', 1, Len(stderr)) = stderr]_vars

\* C25: a signal that arrived while rec_next was reading and one that
\* arrived during the output were each reported at the next polling point
C25_Witness ==
    /\ Len(stderr) = 2
    /\ stderr[1].at = "Reading"
    /\ stderr[2].at = "Writing"
    /\ got_siginfo = 0
    /\ pc = "done"

\* C25: a signal has arrived during the output and main has not yet polled
C25_WitnessPending ==
    /\ got_siginfo = 1
    /\ pc = "write"
    /\ out_i = 1
    /\ stderr = <<>>

(***************************************************************************)
(* random_uniform (src/rnd.c:23-74) in a build without HAVE_ARC4RANDOM     *)
(* (src/Makefile:12-14),                                                   *)
(* called as main calls it, with upper_bound = rec_no + 1 (part_003:534).  *)
(* random() returns each of 0 .. RandomMax; r holds the function's r.      *)
(***************************************************************************)
\* INT32_MAX, the largest value of random() (src/rnd.c:60-61), scaled
RandomMax == 15
MaxUpper == 8

\* reroll_at (src/rnd.c:68)
reroll_at(r_max, upper_bound) ==
    r_max - (((r_max % upper_bound) + 1) % upper_bound)

InitRnd == StartedAt("rnd", {UINT32_MAX}, 0, {UINT32_MAX})

\* what random_uniform leaves alone
rndFrame ==
    <<nrecords, re, delim, argi, rfd, rec, rec_size, to_free, to_free_valid,
      memory_cache, out_i, f, eof, seen, ub, f_last, f_size, errno, argVars,
      heap_limit, staticVars, envVars, sigVars>>

\* main reaches the call with some number of records read
RndCall ==
    /\ pc = "rnd"
    /\ \E n \in 0 .. (MaxUpper - 1) : rec_no' = n
    /\ pc' = "roll"
    /\ UNCHANGED r
    /\ UNCHANGED rndFrame

\* one pass of the do loop (src/rnd.c:34-71)
RndRoll ==
    /\ pc = "roll"
    /\ \E raw \in 0 .. RandomMax :
          /\ r' = raw
          /\ pc' = IF ~(raw < RandomMax) THEN "abort"
                   ELSE IF raw >= reroll_at(RandomMax, rec_no + 1) THEN "roll"
                   ELSE "rolled"
    /\ UNCHANGED rec_no
    /\ UNCHANGED rndFrame

\* return r % upper_bound (src/rnd.c:73)
RndReturn ==
    /\ pc = "rolled"
    /\ r' = r % (rec_no + 1)
    /\ pc' = "returned"
    /\ UNCHANGED rec_no
    /\ UNCHANGED rndFrame

NextRnd ==
    \/ RndCall
    \/ RndRoll
    \/ RndReturn

SpecRnd == InitRnd /\ [][NextRnd]_vars

\* the values of random() after which the call can return k
RawFor(k) ==
    {raw \in 0 .. RandomMax :
        /\ raw < RandomMax
        /\ raw < reroll_at(RandomMax, rec_no + 1)
        /\ raw % (rec_no + 1) = k}

\* C26: with random() uniform over 0 .. r_max, random_uniform(upper_bound)
\* never fails, returns a number below upper_bound, and returns every
\* number of 0 .. upper_bound - 1 after equally many values of random().
C26_Uniform ==
    pc # "rnd" =>
       /\ pc # "abort"
       /\ pc = "returned" => r < rec_no + 1
       /\ \A k \in 0 .. rec_no : Cardinality(RawFor(k)) = Cardinality(RawFor(0))

\* C26: random_uniform(2) has returned 1, which it returns after fewer
\* values of random() than 0
C26_Biased ==
    /\ pc = "returned"
    /\ rec_no = 1
    /\ r = 1
    /\ Cardinality(RawFor(1)) < Cardinality(RawFor(0))

\* C26: random() returned its largest value and assert(r < r_max) failed
C26_Aborted ==
    /\ pc = "abort"
    /\ r = RandomMax

\* the cursors of a source are in order within its buffer, and the write
\* cursor of a source that is not spooled is 0 (part_001:48-59)
CursorsOrdered(file) ==
    /\ 0 <= file.buf_first_write
    /\ file.buf_first_write <= file.buf_first_read
    /\ file.buf_first_read <= file.buf_last
    /\ file.buf_last <= file.buf_size
    /\ ~Spooling(file) => file.buf_first_write = 0

\* C27: at every step of a run, and so between any two operations on a
\* source, the cursors of every open source satisfy
\* 0 <= buf_first_write <= buf_first_read <= buf_last <= buf_size, and
\* buf_first_write is 0 for a source that is not spooled (tmp = fd).
C27_Cursors ==
    \A d \in RFDs : f[d].offset # -1 => CursorsOrdered(f[d])

\* C27: between two calls of rec_next on a spooled source, a record is
\* processed and not yet flushed, after one that was kept in memory, and
\* more data is unprocessed
C27_Witness ==
    /\ pc = "draw"
    /\ Spooling(f[rfd])
    /\ 0 < f[rfd].buf_first_write
    /\ f[rfd].buf_first_write < f[rfd].buf_first_read
    /\ f[rfd].buf_first_read < f[rfd].buf_last

\* C27: between two calls of rec_next on a regular file, a record in the
\* middle of the buffer has been returned
C27_WitnessRegular ==
    /\ pc = "draw"
    /\ ~Spooling(f[rfd])
    /\ f[rfd].buf_first_write = 0
    /\ f[rfd].buf_first_read > 0
    /\ f[rfd].buf_first_read < f[rfd].buf_last
    /\ rec_no = 2

(***************************************************************************)
(* The part of rec_next that makes room (part_001:363-387), on its own:    *)
(* source 0 has found no match in its unprocessed data, has flushed what   *)
(* it had to, and has not reached the end of its input.  seen holds the    *)
(* size the buffer had then.                                               *)
(***************************************************************************)
\* the sizes the buffer can have (part_001:158, 383)
RoomSizes == {BufSizeInit, 2 * BufSizeInit}

\* n bytes without a delimiter, in one of two arrangements
Unmatched(n, v) ==
    <<>> \o [i \in 1 .. n |-> IF (i + v) % 3 = 0 THEN Ord["b"] ELSE Ord["a"]]

\* the entries of f[] explored: fr processed bytes, the rest unprocessed
RoomFiles ==
    {[offset |-> 0,
      buf_p |-> (<<>> \o [i \in 1 .. fr |-> Delim]) \o Unmatched(last - fr, v),
      buf_first_write |-> IF spooled THEN fr ELSE 0,
      buf_first_read |-> fr, buf_last |-> last, buf_size |-> size,
      fd |-> 3, tmp |-> IF spooled THEN 4 ELSE 3] :
        size \in RoomSizes, last \in 0 .. (2 * BufSizeInit),
        fr \in 0 .. (2 * BufSizeInit), v \in 0 .. 1, spooled \in BOOLEAN}

InitRoom ==
    /\ pc = "read"
    /\ \E file \in RoomFiles :
          /\ file.buf_first_read <= file.buf_last
          /\ file.buf_last <= file.buf_size
          /\ f = [d \in RFDs |-> IF d = 0 THEN file ELSE UnusedFile]
          /\ seen = <<file.buf_size>>
          /\ stream = [d \in RFDs |-> IF d = 0 THEN file.buf_p ELSE <<>>]
          /\ spill = [d \in RFDs |-> IF d = 0 /\ Spooling(file)
                                     THEN SubSeq(file.buf_p, 1, file.buf_first_read)
                                     ELSE <<>>]
    /\ f_last = 1
    /\ f_size = 4
    /\ ovector_size = OvectorSize(0, "delim")
    /\ w_buf_size = 0
    /\ got_siginfo = 0
    /\ stderr = <<>>
    /\ rfd = 0
    /\ errno = "0"
    /\ heap_limit = UINT32_MAX
    /\ argv = <<>>
    /\ argj = 0
    /\ nrecords = UINT32_MAX
    /\ re = "delim"
    /\ delim = <<Ord["\\"], Ord["n"]>>
    /\ argi = 0
    /\ rec = NewArray
    /\ rec_size = RecSizeInit
    /\ rec_no = 0
    /\ r = 0
    /\ to_free = Garbage
    /\ to_free_valid = 0
    /\ memory_cache = memory_cache_initial
    /\ out_i = 0
    /\ eof = FALSE
    /\ stream_eof = [d \in RFDs |-> FALSE]
    /\ heap = {}
    /\ stdout = <<>>
    /\ ub = FALSE

SpecRoom == InitRoom /\ [][RecNextRead]_vars

\* the free space is a quarter of the capacity at least (the whole part of
\* the quarter: the capacities of a run are multiples of 4), or a block at
\* least
RoomEnough ==
    \/ f[rfd].buf_size - Len(Unprocessed(f[rfd])) >= f[rfd].buf_size \div 4
    \/ f[rfd].buf_size - Len(Unprocessed(f[rfd])) >= BUFSIZ

\* the step left the unprocessed bytes at the front of the buffer, in order
Preserved ==
    /\ f'[rfd].buf_first_read = 0
    /\ f'[rfd].buf_first_write = 0
    /\ f'[rfd].buf_last >= Len(Unprocessed(f[rfd]))
    /\ SubSeq(f'[rfd].buf_p, 1, Len(Unprocessed(f[rfd]))) = Unprocessed(f[rfd])

\* the step failed for want of memory and left the source as it was
OutOfMemory == pc' = "fatal" /\ errno' = "ENOMEM" /\ f' = f

\* C28: when rec_next makes room, it keeps the capacity if and only if the
\* free space (capacity minus unprocessed bytes) is at least a quarter of
\* the capacity or at least BUFSIZ; otherwise it doubles the capacity, unless
\* the double exceeds the largest capacity, which is an out-of-memory
\* error, as is a failure of malloc; the capacity kept or doubled, the
\* unprocessed bytes are at offset 0, in order.
C28_MakeRoom ==
    [][pc = "read" =>
          IF RoomEnough
          THEN f'[rfd].buf_size = f[rfd].buf_size /\ Preserved
          ELSE IF 2 * f[rfd].buf_size > BufSizeMax
          THEN OutOfMemory
          ELSE \/ OutOfMemory
               \/ f'[rfd].buf_size = 2 * f[rfd].buf_size /\ Preserved]_vars

\* C28: the 4 unprocessed bytes of a full buffer of 4 are at the front of
\* a buffer of 8
C28_Witness ==
    /\ seen = <<BufSizeInit>>
    /\ f[0].buf_size = 2 * BufSizeInit
    /\ f[0].buf_last = BufSizeInit
    /\ SubSeq(f[0].buf_p, 1, 3) = <<Ord["a"], Ord["b"], Ord["a"]>>
    /\ pc = "exec"

\* C28: a buffer of 8 that holds 7 unprocessed bytes has been kept: one byte
\* free is a block, though less than a quarter
C28_WitnessBlock ==
    /\ seen = <<2 * BufSizeInit>>
    /\ f[0].buf_size = 2 * BufSizeInit
    /\ f[0].buf_first_read = 0
    /\ f[0].buf_last = 7
    /\ pc = "exec"
    /\ stream_eof[0]

\* C28: a full buffer of 8 cannot be doubled: 16 is more than BufSizeMax
C28_WitnessLimit ==
    /\ f[0].buf_size = 2 * BufSizeInit
    /\ f[0].buf_last - f[0].buf_first_read = 2 * BufSizeInit
    /\ pc = "fatal"
    /\ errno = "ENOMEM"

(***************************************************************************)
(* Runs with a pattern that can match at the end of the subject only:      *)
(* -e 'a,?$|,' with the default template.  A source "aa" is one record,    *)
(* found by $ once the input has ended; a source "a,a" is the record "a,"  *)
(* and the final record "a".                                               *)
(***************************************************************************)
EolLines == {<<"eol", <<Ord["\\"], Ord["n"]>>>>}

InitEol == StartedWith("open", {MaxCap, UINT32_MAX}, 0, {UINT32_MAX}, EolLines)

SpecEol == InitEol /\ [][Next]_vars

\* the options under which end-of-subject matching is enabled exactly when
\* end holds
Enabled(end) == IF end THEN 0 ELSE PCRE_NOTEOL

\* the match of the pattern in the unprocessed data of the source being
\* read, with end-of-subject matching enabled exactly when end holds
Attempt(end) ==
    pcre_exec(re, f[rfd].buf_p, f[rfd].buf_last - f[rfd].buf_first_read,
              f[rfd].buf_first_read, Enabled(end))

\* a call of rec_next starts, for the first time or again after an error
CallStarts == pc' = "exec" /\ pc # "read"

\* an attempt found nothing and rec_next goes on to get more data
AttemptFails == pc = "exec" /\ pc' \in {"flush", "read"}

\* a read has taken place and rec_next goes on to the next attempt
ReadDone == pc = "read" /\ pc' = "exec"

\* the read returned 0 bytes (and so no error)
ReadNothing == stream' = stream /\ stream_eof'[rfd] /\ errno' = errno

\* the read returned bytes, or failed
ReadSomething == stream' # stream \/ errno' \in Errnos

\* rec_next returns a record
Produces == rec_no' = rec_no + 1

\* the record produced is the data up to the end of the match found with
\* end-of-subject matching enabled exactly when end holds, or all the data
\* when the source has ended without a match
ProducedUnder(end) ==
    LET m == Attempt(end)
        x == seen'[rec_no']
    IN /\ m # <<>> \/ end
       /\ x.bytes = SubSeq(f[rfd].buf_p, f[rfd].buf_first_read + 1,
                           IF m # <<>> THEN m[2] ELSE f[rfd].buf_last)
       /\ x.last = end
       /\ HasTarget(r, nrecords) => (REC_IS_LAST(rec'[r + 1]) <=> end)

\* every record of the reservoir has the flag it was produced with
FlagsKept ==
    \A i \in 1 .. MIN(rec_no', nrecords) :
       REC_IS_LAST(rec'[i]) <=> seen'[rec'[i].id + 1].last

\* a record is written
Renders == Len(stdout') = Len(stdout) + 1

\* what was written is the record up to the match found in it with
\* end-of-subject matching enabled exactly when the record has the flag (the
\* whole record when there is none), followed by the newline of the template
RenderedByFlag ==
    LET o == stdout'[Len(stdout')]
        x == seen[o.id + 1]
        m == pcre_exec(re, x.bytes, Len(x.bytes), 0, Enabled(x.last))
    IN o.bytes = SubSeq(x.bytes, 1, IF m # <<>> THEN m[1] ELSE Len(x.bytes))
                    \o <<10>>

\* C29: rec_next makes every attempt to match with end-of-subject matching
\* suppressed until a read of the source has returned 0 bytes during the
\* call; a record has the last-in-source flag exactly if it was produced
\* after such a read; the flag stays with the record wherever the sampling
\* loop moves it; and rec_write matches again with end-of-subject matching
\* enabled exactly for the records with the flag.
C29_EndOfSubject ==
    [][/\ CallStarts => ~eof'
       /\ AttemptFails => ~eof /\ Attempt(FALSE) = <<>>
       /\ ReadDone => (eof' => ReadNothing) /\ (~eof' => ReadSomething)
       /\ Produces => ProducedUnder(eof)
       /\ pc' # "abort" => FlagsKept
       /\ Renders => RenderedByFlag]_vars

\* a record found by $ at the end of its source, kept in another slot than
\* the one it was read into, has been written up to that match
C29_Witness ==
    \E k \in 1 .. Len(stdout) :
       /\ seen[stdout[k].id + 1].last
       /\ seen[stdout[k].id + 1].bytes = <<Ord["a"], Ord["a"]>>
       /\ seen[stdout[k].id + 1].r # k - 1
       /\ stdout[k].bytes = <<Ord["a"], 10>>

\* a record that does not end its source and that $ would match whole has
\* been written up to its delimiter
C29_WitnessInner ==
    \E k \in 1 .. Len(stdout) :
       /\ ~seen[stdout[k].id + 1].last
       /\ seen[stdout[k].id + 1].bytes = <<Ord["a"], Delim>>
       /\ stdout[k].bytes = <<Ord["a"], 10>>

(***************************************************************************)
(* The end of a source.                                                    *)
(***************************************************************************)
\* rec_next is about to return -1 with errno 0: the attempt made after a
\* read returned 0 bytes found no match and no unterminated record
AtEndOfStream == pc = "exec" /\ eof /\ Ovector(re, f[rfd], eof) = <<>>

\* the slots of the reservoir with a record of source d that is not held in
\* memory
Spooled(d) ==
    {i \in 1 .. MIN(rec_no, nrecords) :
        REC_IS_OFFSET(rec[i]) /\ REC_F_IDX(rec[i]) = d}

\* the file f[d].tmp names holds the bytes of the records of source d that
\* were given a place in it, and nothing is left to write to it
Flushed(d) ==
    /\ Unflushed(f[d]) = <<>>
    /\ Len(TmpBytes(d)) = f[d].offset
    /\ \A i \in Spooled(d) :
          /\ Readable(rec[i])
          /\ RecBytes(heap, rec[i]) = seen[rec[i].id + 1].bytes

\* C30: rec_next reports the end of its input only after a read returned 0
\* bytes with no unprocessed data left; buf_first_read and buf_last are then
\* 0 (the assertions of part_001:331-332 hold) and the records of the source
\* that are not held in memory have been written to its temporary file.
C30_EndOfStream ==
    /\ [](AtEndOfStream =>
             /\ stream_eof[rfd]
             /\ f[rfd].buf_first_read = 0
             /\ f[rfd].buf_last = 0
             /\ Flushed(rfd))
    /\ [][ReturnsEOF => AtEndOfStream /\ Unprocessed(f[rfd]) = <<>>]_vars

\* the last source, read through a temporary file that holds one of the
\* records kept, has ended and the output loop is about to start
C30_Witness ==
    /\ pc = "write"
    /\ out_i = 0
    /\ Spooling(f[rfd])
    /\ Spooled(rfd) # {}
    /\ spill[rfd] # <<>>
    /\ stream_eof[rfd]

\* the end of a regular file, all of whose records are read from the file
\* itself, is about to be reported
C30_WitnessRegular ==
    /\ AtEndOfStream
    /\ ~Spooling(f[rfd])
    /\ Spooled(rfd) # {}
    /\ Len(seen) = 2

(***************************************************************************)
(* A draw that meets the end of a source.                                  *)
(***************************************************************************)
\* slots 0 .. MIN(rec_no, nrecords) - 1 are left as they are
SlotsKept == \A i \in 1 .. Logical : rec'[i] = rec[i]

\* no record copy is freed or made and the budget is as it was
NothingReleased == heap' = heap /\ memory_cache' = memory_cache

\* every record in use that is held in memory has its copy
CopiesLive ==
    \A i \in 1 .. Logical :
       ~REC_IS_OFFSET(rec[i]) => Owned(heap, rec[i]) # {}

\* C31: a draw whose rec_next reports the end of the source is undone: the
\* draw and the failed call leave slots 0 .. min(rec_no, nrecords) - 1 and
\* the record the draw chose to displace as they were, nothing is released,
\* rec_no is not incremented, and main goes on to the next source (or to the
\* output loop) with the same rec_no; the records in use are then the ones
\* the draws of the records read so far put there.
C31_DrawUndone ==
    /\ [][pc = "draw" => SlotsKept /\ NothingReleased /\ rec_no' = rec_no]_vars
    /\ [][ReturnsEOF =>
             /\ SlotsKept
             /\ NothingReleased
             /\ rec_no' = rec_no
             /\ to_free_valid' = 0
             /\ pc' = "open" => argi' = argi + 1]_vars
    /\ [](pc \in {"open", "write"} /\ out_i = 0 =>
             /\ CopiesLive
             /\ Ids(rec, Logical) = Ids(ArrAfter(Draws, nrecords, rec_no), Logical))

\* the first source ended on a draw that had chosen the record of the one
\* slot of a full reservoir for eviction; the record, held in memory, is
\* still there and main is about to open the next source
C31_Witness ==
    /\ pc = "open"
    /\ argi = 1
    /\ nrecords = 1
    /\ rec_no = 2
    /\ r = 0
    /\ to_free = rec[1]
    /\ to_free_valid = 0
    /\ ~REC_IS_OFFSET(rec[1])
    /\ Owned(heap, rec[1]) # {}

(***************************************************************************)
(* The eviction of rec[r] from a full reservoir.                           *)
(***************************************************************************)
\* rec_next returns a record into rec[r], whose old record is to be freed
Replaces == ReturnsRecord /\ Evicts(rec_no, nrecords, r)

\* rec_next could keep a record in memory as far as the data go
CouldRetain == Spooling(f[rfd]) /\ f[rfd].buf_first_read = f[rfd].buf_first_write

\* the footprint of the record rec_next returns in this step
NewUse == REC_ESTIMATED_MEMORY_USE(rec'[r + 1])

\* what the budget gets back for the evicted record
Credit ==
    IF REC_IS_OFFSET(to_free) THEN 0 ELSE REC_ESTIMATED_MEMORY_USE(to_free)

\* C32 as stated: the record a full reservoir evicts is released before the
\* new record is read into its slot, so rec_next keeps the new record in
\* memory whenever the budget with the credit for the old one allows it.
C32_CreditSeen ==
    [][Replaces /\ CouldRetain /\ memory_cache + Credit >= NewUse
          => ~REC_IS_OFFSET(rec'[r + 1])]_vars

\* C32: the record a full reservoir evicts is set aside before rec_next is
\* called and stays allocated and uncredited through the call; rec_next
\* decides on keeping the new record in memory with the budget as it is
\* without the credit, and the old record is freed and its footprint
\* credited only once rec_next has returned the new one.
C32_ReleasedAfterRead ==
    /\ [](pc \in {"exec", "flush", "read"} /\ Evicts(rec_no, nrecords, r) =>
             /\ to_free_valid = 1
             /\ to_free = rec[r + 1]
             /\ ~REC_IS_OFFSET(to_free) => Owned(heap, to_free) # {})
    /\ [][(pc \in {"exec", "flush", "read"} /\ rec_no' = rec_no) =>
             (memory_cache' = memory_cache /\ heap' = heap)]_vars
    /\ [][Replaces =>
             /\ ~REC_IS_OFFSET(rec'[r + 1])
                   <=> (CouldRetain /\ memory_cache >= NewUse)
             /\ memory_cache' = memory_cache + Credit
                   - (IF REC_IS_OFFSET(rec'[r + 1]) THEN 0 ELSE NewUse)
             /\ ~REC_IS_OFFSET(to_free) => Owned(heap', to_free) = {}]_vars

\* the one slot of a full reservoir held a record in memory; the record
\* that replaced it was not kept in memory, though the whole budget, free
\* again now, would have been enough for it
C32_Witness ==
    /\ pc = "draw"
    /\ nrecords = 1
    /\ rec_no >= 2
    /\ to_free_valid = 0
    /\ ~REC_IS_OFFSET(to_free)
    /\ REC_LEN(to_free) > 0
    /\ REC_IS_OFFSET(rec[1])
    /\ Spooling(f[rfd])
    /\ f[rfd].buf_first_write = f[rfd].buf_first_read - REC_LEN(rec[1])
    /\ memory_cache = memory_cache_initial
    /\ memory_cache >= REC_ESTIMATED_MEMORY_USE(rec[1])

(***************************************************************************)
(* The two forms of a record.                                              *)
(***************************************************************************)
\* the copies a record held in memory with the bytes b would own
CopiesOf(rc, b) == {c \in heap : c.p = rc.loc /\ c.bytes = b}

\* rc has the form of a record held in memory with the bytes b
InMemoryForm(rc, b) ==
    /\ rc.len = 0 - Len(b)
    /\ ~REC_IS_OFFSET(rc)
    /\ Cardinality(CopiesOf(rc, b)) = 1

\* rc has the form of a record of Len(b) > 0 bytes at an offset of the file
\* of its source
OffsetForm(rc, b) ==
    /\ rc.len = Len(b)
    /\ rc.len > 0
    /\ REC_IS_OFFSET(rc)
    /\ rc.loc >= 0
    /\ rc.loc + rc.len <= f[REC_F_IDX(rc)].offset

\* the slots whose record is held in memory
InMemory == {i \in Live : rec[i].len <= 0}

\* C33: every record rec_next has returned and main still holds has exactly
\* one of two forms, told apart by the sign of its length: held in memory
\* (length stored negated, one live copy of its bytes) or referenced by
\* offset (length stored positive, no copy: the live copies are those of the
\* records held in memory); the absolute value of the stored length is the
\* number of bytes of the record.
C33_OneForm ==
    pc # "abort" =>
       /\ \A i \in Live :
             /\ abs(rec[i].len) = Len(seen[rec[i].id + 1].bytes)
             /\ IF rec[i].len <= 0
                THEN InMemoryForm(rec[i], seen[rec[i].id + 1].bytes)
                ELSE OffsetForm(rec[i], seen[rec[i].id + 1].bytes)
       /\ Cardinality(heap) = Cardinality(InMemory)

\* main holds a record in memory and one referenced by offset, both of the
\* same source
C33_Witness ==
    /\ pc = "write"
    /\ out_i = 0
    /\ Logical = 2
    /\ rec[1].len < 0
    /\ rec[2].len > 0
    /\ REC_F_IDX(rec[1]) = REC_F_IDX(rec[2])

\* main holds a record of no bytes, in memory
C33_WitnessEmpty ==
    /\ pc = "draw"
    /\ Logical >= 1
    /\ rec[1].len = 0
    /\ Cardinality(CopiesOf(rec[1], <<>>)) = 1

(***************************************************************************)
(* Runs with each of the patterns that match at least one byte: the        *)
(* delimiter, (a)?(,)(a)? and a,?$|, with the default template and no cap. *)
(***************************************************************************)
PatternLines ==
    {<<pat, <<Ord["\\"], Ord["n"]>>>> : pat \in {"delim", "groups", "eol"}}

InitPatterns ==
    StartedWith("open", {UINT32_MAX}, 0, {UINT32_MAX}, PatternLines)

SpecPatterns == InitPatterns /\ [][Next]_vars

\* the sources are open: main is in the loop over the operands or in the
\* output loop
SourcesOpen == pc \in {"open", "draw", "exec", "flush", "read", "write"}

\* C34: whatever the content of a source, the pattern (as long as it
\* matches at least one byte) and the sizes of the reads, the records
\* rec_next has returned for the source, in order, followed by the data it
\* has yet to process, are the bytes the source has delivered: nothing is
\* lost, doubled or reordered by a flush, a move or a doubling of the
\* buffer; when the source has reported its end no record is empty and the
\* records together are its content.
C34_NothingLost ==
    /\ SourcesOpen =>
          \A d \in RFDs :
             Concat(SeenBytes(d)) \o Unprocessed(f[d]) = stream[d]
    /\ \A d \in RFDs :
          Exhausted(d) /\ Running =>
             /\ Concat(SeenBytes(d)) = stream[d]
             /\ \A i \in 1 .. Len(SeenBytes(d)) : Len(SeenBytes(d)[i]) > 0

\* a spooled source delivered MaxBytes bytes and gave two records, one of
\* which went to the temporary file, and has reported its end
C34_Witness ==
    /\ Exhausted(0)
    /\ Running
    /\ Spooling(f[0])
    /\ Len(SeenOf(0)) = 2
    /\ Len(stream[0]) = MaxBytes
    /\ spill[0] # <<>>
    /\ re = "groups"

\* a source filled the buffer without a match, the buffer was doubled, and
\* the source has reported its end
C34_WitnessDoubled ==
    /\ Exhausted(0)
    /\ Running
    /\ f[0].buf_size = 2 * BufSizeInit
    /\ Len(stream[0]) = BufSizeInit
    /\ Len(SeenOf(0)) = 1

(***************************************************************************)
(* The temporary file of a spooled source.                                 *)
(***************************************************************************)
\* what the temporary file of source d holds once the processed data still
\* in the buffer has been written to it
SpillData(d) == spill[d] \o Unflushed(f[d])

\* the members of ss whose index is in S, one after the other
RECURSIVE Chosen(_, _, _)
Chosen(ss, S, i) ==
    IF i > Len(ss) THEN <<>>
    ELSE (IF i \in S THEN ss[i] ELSE <<>>) \o Chosen(ss, S, i + 1)

\* the bytes at the place in the temporary file the record refers to
AtOffset(d, rc) == SubSeq(SpillData(d), rc.loc + 1, rc.loc + rc.len)

\* the record main holds is one of source d referenced by offset
SpooledOf(d, rc) == rc.id >= 0 /\ REC_IS_OFFSET(rc) /\ REC_F_IDX(rc) = d

\* rec_next returns a record of a spooled source that it keeps in memory or
\* leaves out of the temporary file
SkipsSpill ==
    /\ Produces
    /\ Spooling(f[rfd])
    /\ f'[rfd].offset = f[rfd].offset

\* C35: for a spooled source f[d].offset is the number of bytes written to
\* the temporary file plus buf_first_read - buf_first_write; a record is
\* kept in memory or left out of the file only when buf_first_write =
\* buf_first_read, and any other record adds its length to the offset; so
\* the file, with the processed data still to be flushed, is some of the
\* records of the source, whole and in order, as long as the offset says,
\* and a record referenced by offset has its bytes at [offset, offset +
\* length) of it, in the file itself once they are flushed.
C35_SpillOffsets ==
    /\ [](SourcesOpen =>
             \A d \in RFDs :
                Spooling(f[d]) =>
                   /\ f[d].offset = Len(spill[d]) + f[d].buf_first_read
                                       - f[d].buf_first_write
                   /\ Len(SpillData(d)) = f[d].offset
                   /\ \E S \in SUBSET (1 .. Len(SeenBytes(d))) :
                         Chosen(SeenBytes(d), S, 1) = SpillData(d)
                   /\ \A i \in Live :
                         SpooledOf(d, rec[i]) =>
                            /\ rec[i].loc + rec[i].len <= f[d].offset
                            /\ AtOffset(d, rec[i]) = seen[rec[i].id + 1].bytes
                            /\ Unflushed(f[d]) = <<>> => Readable(rec[i]))
    /\ [][SkipsSpill =>
             f[rfd].buf_first_write = f[rfd].buf_first_read]_vars
    /\ [][(Produces /\ Spooling(f[rfd]) /\ ~SkipsSpill) =>
             f'[rfd].offset = f[rfd].offset + Len(seen'[rec_no'].bytes)]_vars

\* between two calls of rec_next a spooled source has a record in memory
\* and, after it in the buffer, one referenced by offset that is still to
\* be written to the temporary file
C35_Witness ==
    /\ pc = "draw"
    /\ Spooling(f[rfd])
    /\ spill[rfd] = <<>>
    /\ f[rfd].buf_first_write > 0
    /\ f[rfd].buf_first_read > f[rfd].buf_first_write
    /\ f[rfd].offset = f[rfd].buf_first_read - f[rfd].buf_first_write
    /\ \E i \in Live : SpooledOf(rfd, rec[i])

\* the output loop is about to read back, from a temporary file that holds
\* one record of the two its source gave, the record referenced by offset
C35_WitnessFlushed ==
    /\ pc = "write"
    /\ out_i = 0
    /\ Spooling(f[rfd])
    /\ Len(SeenOf(rfd)) = 2
    /\ spill[rfd] = SeenOf(rfd)[2].bytes
    /\ \E i \in Live : SpooledOf(rfd, rec[i]) /\ Readable(rec[i])

\* a record was returned while the one before it was still to be flushed:
\* both are referenced by offset and wait in the buffer, the second at the
\* offset the first ends at
C35_WitnessPending ==
    /\ pc = "draw"
    /\ Spooling(f[rfd])
    /\ Len(SeenOf(rfd)) = 2
    /\ spill[rfd] = <<>>
    /\ f[rfd].buf_first_write = 0
    /\ f[rfd].offset = f[rfd].buf_first_read
    /\ f[rfd].offset = Len(SeenOf(rfd)[1].bytes) + Len(SeenOf(rfd)[2].bytes)
    /\ \E i \in Live : SpooledOf(rfd, rec[i])
                       /\ rec[i].loc = Len(SeenOf(rfd)[1].bytes)

(***************************************************************************)
(* The sampling loop of the main of part_004:342-560, which clamps the     *)
(* draw to nrecords and uses rec[nrecords] as a slot to throw away         *)
(* (part_004:470-524), next to the loop of part_003.  Of its rec_next only *)
(* the outcome is kept: a record, known by its running index, the end of   *)
(* the source, or an error main retries.                                   *)
(***************************************************************************)
MaxSlots == 5

\* the record array after the realloc of part_004:488-496
GrowArrayClamped(a, size, no, cap) ==
    IF MIN(no, cap) >= size
    THEN a \o [j \in 1 .. size |-> Garbage]
    ELSE a

\* if (r > nrecords) r = nrecords (part_004:499-500)
Clamp(rr, cap) == IF rr > cap THEN cap ELSE rr

\* what the loop leaves alone
clampFrame ==
    <<nrecords, re, delim, rfd, to_free, to_free_valid, memory_cache, out_i,
      f, eof, seen, f_last, f_size, errno, argVars, heap_limit, staticVars,
      envVars, sigVars>>

\* the head of the loop: the realloc, the draw and
\* rec[MIN(rec_no, nrecords)] = rec[r] (part_004:488-501); an index outside
\* the array is undefined behaviour
ClampDraw ==
    /\ pc = "clamp"
    /\ LET grown == GrowArrayClamped(rec, rec_size, rec_no, nrecords)
       IN \E rr \in random_uniform(rec_no + 1) :
             /\ r' = Clamp(rr, nrecords)
             /\ rec_size' = Len(grown)
             /\ IF MIN(rec_no, nrecords) < Len(grown)
                   /\ Clamp(rr, nrecords) < Len(grown)
                THEN /\ rec' = [grown EXCEPT ![MIN(rec_no, nrecords) + 1] =
                                               grown[Clamp(rr, nrecords) + 1]]
                     /\ pc' = "clamped"
                     /\ ub' = ub
                ELSE /\ rec' = grown
                     /\ pc' = "abort"
                     /\ ub' = TRUE
    /\ UNCHANGED <<rec_no, argi>>
    /\ UNCHANGED clampFrame

\* rec_next and what main does with its result (part_004:503-523)
ClampNext ==
    /\ pc = "clamped"
    /\ \/ \* a record
          /\ rec_no < MaxSlots
          /\ rec' = SetSlot(rec, r, Known(rec_no))
          /\ rec_no' = rec_no + 1
          /\ pc' = "clamp"
          /\ UNCHANGED argi
       \/ \* end of input: rec[r] = rec[MIN(rec_no, nrecords)]; break
          /\ rec' = SetSlot(rec, r, rec[MIN(rec_no, nrecords) + 1])
          /\ argi' = argi + 1
          /\ pc' = IF argi + 1 < NFiles THEN "clamp" ELSE "sampled"
          /\ UNCHANGED rec_no
       \/ \* EAGAIN or EINTR: continue
          /\ pc' = "clamp"
          /\ UNCHANGED <<rec, rec_no, argi>>
    /\ UNCHANGED <<r, rec_size, ub>>
    /\ UNCHANGED clampFrame

InitSlots ==
    \/ Init
    \/ StartedAt("clamp", (1 .. MaxCap) \cup {UINT32_MAX}, 0, {UINT32_MAX})

NextSlots ==
    \/ Next
    \/ ClampDraw
    \/ ClampNext

SpecSlots == InitSlots /\ [][NextSlots]_vars

\* the array has rec_size slots, or twice as many as before
Doubled ==
    /\ Len(rec') = rec_size'
    /\ rec_size' \in {rec_size, 2 * rec_size}

\* C36: every slot the sampling loop reads or writes is one of the rec_size
\* slots the array has at that time: the slot rec[r] is saved to
\* (rec[rec_no], or rec[MIN(rec_no, nrecords)] in the loop that clamps),
\* the drawn slot r itself, also when it is clamped to nrecords, the slot
\* rec_next is given, and the slots 0 .. MIN(rec_no, nrecords) - 1 the
\* output loop goes through; the array is doubled before the access that
\* would be outside it.
C36_SlotsInside ==
    /\ [](/\ ~ub
          /\ Len(rec) = rec_size
          /\ Logical <= rec_size
          /\ (pc \in {"exec", "flush", "read"} /\ HasTarget(r, nrecords)) =>
                r < rec_size
          /\ pc = "clamped" =>
                /\ r < rec_size
                /\ r <= nrecords
                /\ MIN(rec_no, nrecords) < rec_size)
    /\ [][pc = "draw" =>
             /\ Doubled
             /\ r' < MIN(rec_no, nrecords) =>
                   /\ r' < rec_size'
                   /\ rec_no < nrecords => rec_no < rec_size']_vars
    /\ [][pc = "clamp" =>
             /\ Doubled
             /\ r' < rec_size'
             /\ MIN(rec_no, nrecords) < rec_size']_vars

\* the loop that clamps has doubled the array and has drawn, with the
\* reservoir full, the slot to throw away, the last of the array
C36_Witness ==
    /\ pc = "clamped"
    /\ rec_size = 2 * RecSizeInit
    /\ nrecords = rec_size - 1
    /\ rec_no > nrecords
    /\ r = nrecords

\* the loop of part_003 has doubled the array for a record that goes to
\* its last slot, after saving that slot's record to the slot after it
C36_WitnessSaved ==
    /\ pc = "draw"
    /\ rec_size = 4 * RecSizeInit
    /\ rec_no = 3
    /\ seen[3].r = 1
    /\ rec[3].id = seen[2].r

(***************************************************************************)
(* Termination.  The runs are those of the delimiter pattern with the      *)
(* default template; the program takes a step whenever it can, and a       *)
(* system call that main makes again and again after EAGAIN or EINTR is    *)
(* answered with something else in the end.                                *)
(***************************************************************************)
LiveLines == {<<"delim", <<Ord["\\"], Ord["n"]>>>>}

InitLive == StartedWith("open", {1, UINT32_MAX}, NFiles - 1, {UINT32_MAX}, LiveLines)

\* a write, read or pread fails with an error that makes main call again
Retried ==
    /\ errno' \in {"EAGAIN", "EINTR"}
    /\ \/ pc \in {"flush", "read"} /\ pc' = "exec" /\ ~eof' /\ stream' = stream
       \/ pc = "write" /\ pc' = "write" /\ out_i' = out_i

\* a write, read or pread returns something else than such an error
Settled == (RecNextFlush \/ RecNextRead \/ WriteRecord) /\ ~Retried

SpecLive == InitLive /\ [][Next]_vars /\ WF_vars(Next) /\ SF_vars(Settled)

\* main has left the program: exit(0), errx or err, or abort
Left == pc \in {"done", "fatal", "abort"}

\* the model follows the run no further: MaxRecNo records were read and
\* the next is there
Beyond == pc = "exec" /\ rec_no = MaxRecNo /\ Ovector(re, f[rfd], eof) # <<>>

\* C37: with finite inputs and a pattern that matches at least one byte,
\* the run ends, so that no call of rec_next goes on for ever; it ends
\* with exit(0) or in rec_assert_released only from the output loop, after
\* every source reported its end, and otherwise with an error; it never
\* stays in a loop for ever, and no assertion fails before the output loop
\* is through.
C37_Terminates ==
    /\ [](pc # "hang")
    /\ [](pc = "abort" => out_i >= Logical)
    /\ [][pc' \in {"done", "abort"} => pc = "write" /\ argi = NFiles]_vars
    /\ <>(Left \/ Beyond)

\* the source has reported its end after MaxRecNo records and a call that
\* had to be made again, and the run has ended with exit(0)
C37_Witness ==
    /\ pc = "done"
    /\ Len(seen) = MaxRecNo
    /\ Exhausted(NFiles - 1)
    /\ errno \in {"EAGAIN", "EINTR"}
    /\ stdout # <<>>

(***************************************************************************)
(* write_delimited (src/randomize.c:185-259), called once as main calls    *)
(* it with d = 1 (src/randomize.c:391, 529).  argv[1] holds buf, delim     *)
(* output_delimiter.chars, rec the two entries of iov with iov_base as an  *)
(* index into buf and into out_chars, w_buf_size holds out_chars_size and  *)
(* stdout the bytes the descriptor has received.  The bytes of buf and of  *)
(* the delimiter are all different.                                        *)
(***************************************************************************)
MaxNBytes == 3
MaxDelimSize == 3
\* the largest size_t and ssize_t, scaled
SIZE_MAX == 255
SSIZE_MAX == 127

\* buf[0 .. nbytes-1] and output_delimiter.chars[0 .. size-1]
BufOf(nbytes) == <<>> \o [i \in 1 .. nbytes |-> i]
DelimOf(size) == <<>> \o [i \in 1 .. size |-> 100 + i]

InitWritev == StartedAt("delimited", {UINT32_MAX}, 0, {UINT32_MAX})

\* what write_delimited leaves alone
writevFrame ==
    <<nrecords, re, argi, rfd, rec_size, rec_no, r, to_free, to_free_valid,
      memory_cache, out_i, f, eof, seen, ub, f_last, f_size, argj,
      heap_limit, ovector_size, stream, stream_eof, spill, heap>>

\* the copy of the delimiter and the iovec (src/randomize.c:200-215)
WdCall ==
    /\ pc = "delimited"
    /\ \E nbytes \in 0 .. MaxNBytes, size \in 0 .. MaxDelimSize :
          /\ argv' = <<BufOf(nbytes)>>
          /\ delim' = DelimOf(size)
          /\ \/ \* realloc fails
                /\ w_buf_size < size
                /\ pc' = "failed"
                /\ errno' = "ENOMEM"
                /\ UNCHANGED <<w_buf_size, rec>>
             \/ /\ w_buf_size' = MAX(w_buf_size, size)
                /\ rec' = <<[iov_base |-> 0, iov_len |-> nbytes],
                            [iov_base |-> 0, iov_len |-> size]>>
                /\ pc' = "writev"
                /\ UNCHANGED errno
    /\ UNCHANGED <<stdout, sigVars>>
    /\ UNCHANGED writevFrame

\* the bytes the iovec names: len bytes of s from the index base on
IovBytes(s, base, len) == SubSeq(s, base + 1, base + len)

\* the first n bytes of what writev(d, iov, 2) has to write
Gathered(iov, n) ==
    SubSeq(IovBytes(argv[1], iov[1].iov_base, iov[1].iov_len)
             \o IovBytes(delim, iov[2].iov_base, iov[2].iov_len), 1, n)

\* iov after a partial write of bytes_written bytes
\* (src/randomize.c:236-251): iov[0].iov_len is zero when it is subtracted
Advanced(iov, bytes_written) ==
    IF bytes_written > iov[1].iov_len
    THEN <<[iov[1] EXCEPT !.iov_len = 0],
           [iov_base |-> iov[2].iov_base + (bytes_written - 0),
            iov_len |-> (iov[2].iov_len - (bytes_written - 0))
                           % (SIZE_MAX + 1)]>>
    ELSE <<[iov_base |-> iov[1].iov_base + bytes_written,
            iov_len |-> iov[1].iov_len - bytes_written],
           iov[2]>>

\* to_write (src/randomize.c:215)
ToWrite ==
    IF Len(argv[1]) > SSIZE_MAX - Len(delim) THEN SSIZE_MAX
    ELSE Len(argv[1]) + Len(delim)

\* the SIGINFO message of src/randomize.c:219-224, printed once
Progress ==
    IF got_siginfo' = 1 /\ stderr = <<>>
    THEN stderr' = <<[written |-> Len(stdout), of |-> ToWrite]>>
    ELSE stderr' = stderr

\* one pass of the loop: writev and what follows it
\* (src/randomize.c:218-256); a signal may arrive during the call
WdWritev ==
    /\ pc = "writev"
    /\ LET total == rec[1].iov_len + rec[2].iov_len
       IN IF total = 0
          THEN \* writev returns 0: return to_write
               /\ pc' = "wrote"
               /\ UNCHANGED <<rec, stdout, errno, sigVars>>
          ELSE IF total > SSIZE_MAX
          THEN \* writev fails: the lengths do not fit in an ssize_t
               /\ pc' = "failed"
               /\ errno' = "EINVAL"
               /\ got_siginfo' \in {got_siginfo, 1}
               /\ Progress
               /\ UNCHANGED <<rec, stdout>>
          ELSE /\ got_siginfo' \in {got_siginfo, 1}
               /\ Progress
               /\ \/ \E e \in {"EINTR", "EIO"} :
                        /\ errno' = e
                        /\ pc' = IF e = "EINTR" THEN "writev" ELSE "failed"
                        /\ UNCHANGED <<rec, stdout>>
                  \/ \E bytes_written \in 1 .. total :
                        /\ stdout' = stdout \o Gathered(rec, bytes_written)
                        /\ IF bytes_written = total
                           THEN pc' = "wrote" /\ UNCHANGED rec
                           ELSE /\ pc' = "writev"
                                /\ rec' = Advanced(rec, bytes_written)
                        /\ UNCHANGED errno
    /\ UNCHANGED <<argv, delim, w_buf_size>>
    /\ UNCHANGED writevFrame

NextWritev ==
    \/ WdCall
    \/ WdWritev

SpecWritev == InitWritev /\ [][NextWritev]_vars

\* what the descriptor is to receive
ToDeliver == argv[1] \o delim

\* C38: whatever writev returns, the descriptor has received a prefix of
\* the bytes of buf followed by the bytes of the output delimiter, and all
\* of them when write_delimited returns to_write
C38_Delivered ==
    /\ pc \in {"writev", "wrote", "failed"} => IsPrefix(stdout, ToDeliver)
    /\ pc = "wrote" => stdout = ToDeliver

\* C38: writev wrote the byte of buf and the first byte of a delimiter of
\* three, and write_delimited returned to_write after writing the third
C38_Skipped ==
    /\ pc = "wrote"
    /\ Len(argv[1]) = 1
    /\ Len(delim) = 3
    /\ stdout = <<argv[1][1], delim[1], delim[3]>>

\* C38: writev wrote one byte of the delimiter of two after buf, and
\* write_delimited returned -1 with EINVAL and nothing else written
C38_Refused ==
    /\ pc = "failed"
    /\ errno = "EINVAL"
    /\ Len(delim) = 2
    /\ stdout = argv[1] \o <<delim[1]>>
    /\ rec[2].iov_len > SSIZE_MAX

\* C38: a partial write that ended in buf, an EINTR and a second write
\* delivered everything
C38_Whole ==
    /\ pc = "wrote"
    /\ errno = "EINTR"
    /\ Len(argv[1]) = MaxNBytes
    /\ Len(delim) = MaxDelimSize
    /\ stdout = ToDeliver

\* the unprocessed bytes rec_next has when it makes room
Kept == f[rfd].buf_last - f[rfd].buf_first_read

\* the step is a pass of part_001:363-396 that gets as far as read()
ReachesRead == pc = "read" /\ ~(pc' = "fatal" /\ errno' = "ENOMEM")

\* C39: whenever rec_next gets as far as the read, the assertion that the
\* buffer has room holds, both cursors are 0, the unprocessed bytes are
\* fewer than the capacity, so that read() is asked for at least one byte,
\* the bytes it returns fit, and rec_next takes the input to have ended only
\* when read() returned no byte.
C39_RoomToRead ==
    [][ReachesRead =>
          /\ pc' # "abort"
          /\ f'[rfd].buf_first_write = 0
          /\ f'[rfd].buf_first_read = 0
          /\ f'[rfd].buf_size - Kept >= 1
          /\ f'[rfd].buf_last >= Kept
          /\ f'[rfd].buf_last <= f'[rfd].buf_size
          /\ (eof' => f'[rfd].buf_last = Kept /\ stream_eof'[rfd])]_vars

\* C39: a full buffer of BufSizeInit unprocessed bytes was enlarged and the
\* read that followed returned 0
C39_Witness ==
    /\ pc = "exec"
    /\ seen = <<BufSizeInit>>
    /\ f[0].buf_size = 2 * BufSizeInit
    /\ f[0].buf_last = BufSizeInit
    /\ f[0].buf_first_read = 0
    /\ eof
    /\ stream_eof[0]

\* C39: processed bytes were dropped from a buffer that was kept, and the
\* read returned a byte
C39_WitnessSlid ==
    /\ pc = "exec"
    /\ ~eof
    /\ errno = "0"
    /\ f[0].buf_size = seen[1]
    /\ f[0].buf_first_read = 0
    /\ f[0].buf_first_write = 0
    /\ f[0].buf_last < Len(stream[0])
    /\ f[0].buf_last >= 2

====
